---- MODULE Spec2Model ----
(***************************************************************************)
(* Transaction settlement orchestrator of finbot: the wallet workflows     *)
(* (services/wallet_service.py) over the ledger store (db/repository.py)   *)
(* and the transaction state machine (db/models.py).                       *)
(*                                                                         *)
(* Every await on the store is one atomic step of a caller; callers        *)
(* interleave between steps.  A caller's Python locals (the User and       *)
(* Transaction objects it read earlier) are kept in its entry of procs.    *)
(***************************************************************************)
EXTENDS Integers, Sequences, FiniteSets, TLC

\* ---------------------------------------------------------------- bounds
\* Operations (workflow invocations) started in one behaviour.
MaxOps == 2
\* Storage writes that may fail with an unexpected exception.
MaxFaults == 1

\* Concurrent callers of the service (bot handlers, admin requests).
Procs == {"p1", "p2"}
\* The account row present in the store, and the ids callers may pass.
UserIds == {1}
ArgUserIds == {1, 2}
\* Idempotency keys a caller may supply; NULL means "not provided".
CallerKeys == {"k1"}
NULL == "NULL"
\* verify_payment gives up once the attempt counter exceeds this.
MaxVerificationAttempts == 5

\* Amounts a caller may request.
Amounts == {1, 2}
\* Transaction uuids: two stored at start, one per operation at most.
MaxTxns == MaxOps + 2
TxnIds == 1..MaxTxns

\* ------------------------------------------------- transaction state machine
PENDING == "pending"
PROCESSING == "processing"
COMPLETED == "completed"
FAILED == "failed"
PARTIALLY_FAILED == "partially_failed"
CANCELLED == "cancelled"
REVERSED == "reversed"

TransactionState ==
    {PENDING, PROCESSING, COMPLETED, FAILED, PARTIALLY_FAILED, CANCELLED, REVERSED}

valid_transitions ==
    [s \in TransactionState |->
        CASE s = PENDING -> {PROCESSING, CANCELLED}
          [] s = PROCESSING -> {COMPLETED, FAILED, PARTIALLY_FAILED}
          [] s = COMPLETED -> {REVERSED}
          [] s = FAILED -> {PENDING}
          [] OTHER -> {}]

\* A transition check without the retry edge FAILED -> PENDING.
can_transition_to_no_retry(s, new_state) ==
    new_state \in valid_transitions[s] \ {PENDING}

\* A transition check under which no transaction can be marked FAILED.
can_transition_to_never_failed(s, new_state) ==
    new_state \in valid_transitions[s] \ {FAILED}

can_transition_to(s, new_state) == new_state \in valid_transitions[s]

\* utils/retry.py, services/ichancy_service.py: the breaker's configuration.
failure_threshold == 5
recovery_timeout == 60
half_open_max_calls == 3
max_retries == 3
\* config.RETRY_DELAY (seconds) and config.RETRY_BACKOFF, the defaults retry_async
\* takes when with_retry passes none.
delay == 1
backoff == 2

CLOSED == "closed"
OPEN == "open"
HALF_OPEN == "half_open"

\* Callers of retry_async, calls they may start, and the clock's granularity.
Callers == {"c1", "c2"}
MaxCalls == 4
MaxTicks == 4
TickSeconds == recovery_timeout \div 2

\* ------------------------------------------------------------------ state
VARIABLES
    users,          \* users table: id -> row
    transactions,   \* transactions table: id -> row
    payments,       \* payments table: id -> row
    procs,          \* per caller: position and Python locals
    ichancy,        \* external wallet: per transaction, credit/debit calls made
    audit,          \* audit log: per transaction, entries written
    nextTxn,        \* next Transaction uuid
    nextPay,        \* next Payment uuid
    ops,            \* operations started so far
    faults,         \* storage faults injected so far
    breaker,        \* the "ichancy" CircuitBreaker instance
    now,            \* datetime.utcnow(), in seconds
    calls,          \* per caller of retry_async: position and locals
    ncalls,         \* retry_async calls started so far
    recorded,       \* history: failures recorded since the last recorded success
    trials,         \* history: calls let through since the breaker last became HALF_OPEN
    successes,      \* history: successes recorded since it last became HALF_OPEN
    http,           \* IchancyService._request: the response and what is made of it
    bonuses,        \* table bonuses
    bonus_usage,    \* table bonus_usage
    bonus_credits   \* history: balance updates committed by apply_bonus

walletVars == <<users, transactions, payments, procs, ichancy, audit, nextTxn, nextPay, ops, faults>>
breakerVars == <<breaker, now, calls, ncalls, recorded, trials, successes>>
bonusVars == <<bonuses, bonus_usage, bonus_credits>>
vars == <<walletVars, breakerVars, http, bonusVars>>

\* ------------------------------------------------------------ Python locals
NoUser == [state |-> NULL, ichancy_username |-> NULL, local_balance |-> 0,
           total_deposited |-> 0, total_withdrawn |-> 0]

NoTxn == [id |-> 0, user_id |-> 0, type |-> NULL, state |-> NULL, amount |-> 0,
          idempotency_key |-> NULL, balance_before |-> 0, balance_after |-> <<>>,
          processing_started_at |-> NULL, completed_at |-> NULL,
          error_message |-> NULL]

NoResult == [kind |-> NULL, value |-> NULL, error |-> NULL, transaction_id |-> 0]

\* raised_in remembers the stored state of the transaction at the moment an
\* exception was raised inside a workflow's try block (history, not a local);
\* moved_to_processing remembers that the call's update_state(PROCESSING) wrote.
Idle == [pc |-> "idle", op |-> NULL, user_id |-> 0, amount |-> 0, tid |-> 0,
         moved_to_processing |-> FALSE, code |-> NULL, bonus_id |-> NULL,
         pid |-> 0, flag |-> FALSE, user |-> NoUser, txn |-> NoTxn, seen |-> NULL,
         new_state |-> NULL, err |-> NULL, raised_in |-> NULL, rows |-> <<>>,
         result |-> NoResult]

\* A call returns: locals are dropped, the outcome is kept for the caller.
Return(op, kind, value, error, transaction_id) ==
    [Idle EXCEPT !.op = op,
                 !.result = [kind |-> kind, value |-> value, error |-> error,
                             transaction_id |-> transaction_id]]

Returned(p) == procs[p].pc = "idle" /\ procs[p].op # NULL

\* ------------------------------------------------------------------- Init
\* The service starts with fresh callers over a durable store.  The store is
\* either empty (one account, created with zero balances), or holds the outcome
\* of earlier runs of the workflows below on that account:
\*   - a deposit of amount a initiated and its payment verified, or
\*   - that deposit completed by complete_deposit running alone, or
\*   - a deposit of 1 completed that way and a second deposit of amount a
\*     then initiated and its payment verified.
UserRow(link, balance, deposited) ==
    [state |-> "active", ichancy_username |-> link, local_balance |-> balance,
     total_deposited |-> deposited, total_withdrawn |-> 0]

FirstDeposit(a) ==
    [id |-> 1, user_id |-> 1, type |-> "deposit", state |-> PENDING, amount |-> a,
     idempotency_key |-> "dep_1", balance_before |-> 0, balance_after |-> <<>>,
     processing_started_at |-> NULL, completed_at |-> NULL, error_message |-> NULL]

\* The payment of the first deposit after n accepted verify_payment calls.
FirstPayment(a, n) ==
    [id |-> 1, user_id |-> 1, transaction_id |-> 1, state |-> "verified",
     amount |-> a, phone_number |-> NULL, verification_attempts |-> n,
     expires_at |-> "future"]

NoCalls == [t \in TxnIds |-> [deposit |-> 0, withdrawal |-> 0]]
NoAudit ==
    [t \in TxnIds |-> [balance_change |-> 0, state_change |-> {},
                       transaction_complete |-> {}]]

InitEmpty(link) ==
    /\ users = [u \in UserIds |-> UserRow(link, 0, 0)]
    /\ transactions = <<>>
    /\ payments = <<>>
    /\ ichancy = NoCalls
    /\ audit = NoAudit
    /\ nextTxn = 1
    /\ nextPay = 1

InitVerifiedDeposit(link, a, n) ==
    /\ users = [u \in UserIds |-> UserRow(link, 0, 0)]
    /\ transactions = <<FirstDeposit(a)>>
    /\ payments = <<FirstPayment(a, n)>>
    /\ ichancy = NoCalls
    /\ audit = NoAudit
    /\ nextTxn = 2
    /\ nextPay = 2

InitFunded(link, a) ==
    /\ users = [u \in UserIds |-> UserRow(link, a, a)]
    /\ transactions = <<[FirstDeposit(a) EXCEPT !.state = COMPLETED,
                                                 !.balance_after = <<a>>,
                                                 !.completed_at = "set"]>>
    /\ payments = <<FirstPayment(a, 1)>>
    /\ ichancy = [NoCalls EXCEPT ![1].deposit = IF link = NULL THEN 0 ELSE 1]
    /\ audit = [NoAudit EXCEPT ![1] = [balance_change |-> 1,
                                       state_change |-> {<<PENDING, PROCESSING>>},
                                       transaction_complete |-> {COMPLETED}]]
    /\ nextTxn = 2
    /\ nextPay = 2

InitSecondDeposit(link, a) ==
    /\ users = [u \in UserIds |-> UserRow(link, 1, 1)]
    /\ transactions = <<[FirstDeposit(1) EXCEPT !.state = COMPLETED,
                                                 !.balance_after = <<1>>,
                                                 !.completed_at = "set"],
                        [FirstDeposit(a) EXCEPT !.id = 2,
                                                 !.idempotency_key = "dep_2",
                                                 !.balance_before = 1]>>
    /\ payments = <<FirstPayment(1, 1),
                    [FirstPayment(a, 1) EXCEPT !.id = 2, !.transaction_id = 2]>>
    /\ ichancy = [NoCalls EXCEPT ![1].deposit = IF link = NULL THEN 0 ELSE 1]
    /\ audit = [NoAudit EXCEPT ![1] = [balance_change |-> 1,
                                       state_change |-> {<<PENDING, PROCESSING>>},
                                       transaction_complete |-> {COMPLETED}]]
    /\ nextTxn = 3
    /\ nextPay = 3

\* A deposit whose first complete_deposit raised before the credit: for an
\* unlinked account at update_balance, for a linked one in ichancy_service.
InitFailedDeposit(link, a) ==
    /\ users = [u \in UserIds |-> UserRow(link, 0, 0)]
    /\ transactions = <<[FirstDeposit(a) EXCEPT
                            !.state = FAILED,
                            !.processing_started_at = "set",
                            !.completed_at = "set",
                            !.error_message = IF link = NULL THEN "OperationalError"
                                              ELSE "NetworkException"]>>
    /\ payments = <<FirstPayment(a, 1)>>
    /\ ichancy = [NoCalls EXCEPT ![1].deposit = IF link = NULL THEN 0 ELSE 1]
    /\ audit = [NoAudit EXCEPT ![1] = [balance_change |-> 0,
                                       state_change |-> {<<PENDING, PROCESSING>>,
                                                         <<PROCESSING, FAILED>>},
                                       transaction_complete |-> {}]]
    /\ nextTxn = 2
    /\ nextPay = 2

\* A fresh CircuitBreaker, nobody inside retry_async.
\* last_exception holds the attempt whose exception it is.
NoCall == [pc |-> "idle", attempt |-> 0, invoked |-> 0, last_exception |-> <<>>,
           current_delay |-> delay, sleeps |-> <<>>, response |-> <<>>,
           result |-> NULL]

BreakerIdle ==
    /\ breaker = [_state |-> CLOSED, _failure_count |-> 0,
                  _last_failure_time |-> <<>>, _half_open_calls |-> 0]
    /\ now = 0
    /\ calls = [c \in Callers |-> NoCall]
    /\ ncalls = 0
    /\ recorded = 0
    /\ trials = 0
    /\ successes = 0

NoRequest == [pc |-> "idle", response |-> NULL, result |-> NULL]

ClientIdle == http = NoRequest

\* db/models.py Bonus and bonus_usage.  One bonus code exists; max_uses 0
\* stands for None (no limit), value is in currency units for "fixed" and in
\* percent for "percentage".
BonusIds == {"b1"}

FixedBonus ==
    [code |-> "WELCOME", bonus_type |-> "fixed", value |-> 1, min_deposit |-> 0,
     max_uses |-> 0, uses_count |-> 0, is_active |-> TRUE, expired |-> FALSE]

PercentageBonus ==
    [code |-> "WELCOME", bonus_type |-> "percentage", value |-> 100, min_deposit |-> 2,
     max_uses |-> 1, uses_count |-> 0, is_active |-> TRUE, expired |-> FALSE]

\* bonus_credits counts, per (bonus, user), the balance updates apply_bonus
\* has committed (history).
BonusStore(bonus) ==
    /\ bonuses = [b \in BonusIds |-> bonus]
    /\ bonus_usage = {}
    /\ bonus_credits = [b \in BonusIds, u \in UserIds |-> 0]

BonusIdle == BonusStore(FixedBonus)

Init ==
    /\ \E link \in {NULL, "player1"} :
          \/ InitEmpty(link)
          \/ \E a \in Amounts : InitSecondDeposit(link, a)
          \/ \E a \in Amounts, n \in {1, MaxVerificationAttempts} :
                InitVerifiedDeposit(link, a, n)
          \/ \E a \in Amounts : InitFunded(link, a)
    /\ procs = [p \in Procs |-> Idle]
    /\ ops = 0
    /\ faults = 0
    /\ BreakerIdle
    /\ ClientIdle
    /\ BonusIdle

\* -------------------------------------------------------- ledger store
\* UPDATE users SET local_balance = ?, total_deposited = total_deposited + ?,
\* total_withdrawn = total_withdrawn + ? WHERE id = ?
UserRepository_update_balance(user_id, new_balance, deposit_delta, withdraw_delta) ==
    IF user_id \in DOMAIN users
    THEN [users EXCEPT ![user_id].local_balance = new_balance,
                       ![user_id].total_deposited = @ + deposit_delta,
                       ![user_id].total_withdrawn = @ + withdraw_delta]
    ELSE users

\* SELECT * FROM transactions WHERE idempotency_key = ?  (ids of the rows found)
get_by_idempotency_key(key) ==
    {t \in DOMAIN transactions : transactions[t].idempotency_key = key}

\* The idempotency check at the head of TransactionRepository.create.
create_finds_existing(txn) ==
    txn.idempotency_key # NULL /\ get_by_idempotency_key(txn.idempotency_key) # {}

\* The schema without UNIQUE on idempotency_key: the primary key alone.
insert_violates_primary_key_only(txn) == txn.id \in DOMAIN transactions

\* The schema's constraints on INSERT INTO transactions: id PRIMARY KEY,
\* idempotency_key UNIQUE (NULLs are distinct).
insert_violates_constraint(txn) ==
    \/ txn.id \in DOMAIN transactions
    \/ /\ txn.idempotency_key # NULL
       /\ \E t \in DOMAIN transactions :
             transactions[t].idempotency_key = txn.idempotency_key

\* The row update_state validated against, as it read it.
StoredState(tid) ==
    IF tid \in DOMAIN transactions THEN transactions[tid].state ELSE "missing"

\* update_state goes on to write: the row was found and the transition is valid.
update_state_accepts(seen, new_state) ==
    seen # "missing" /\ can_transition_to(seen, new_state)

\* The UPDATE of TransactionRepository.update_state.
update_state_write(tid, new_state, error_message) ==
    IF tid \in DOMAIN transactions
    THEN [transactions EXCEPT
            ![tid].state = new_state,
            ![tid].error_message = error_message,
            ![tid].processing_started_at =
                IF new_state = PROCESSING THEN "set" ELSE @,
            ![tid].completed_at =
                IF new_state \in {COMPLETED, FAILED} THEN "set" ELSE @]
    ELSE transactions

\* TransactionRepository.update_state after its read: validate, write, audit.
TransactionRepository_update_state(tid, seen, new_state, error_message) ==
    IF update_state_accepts(seen, new_state)
    THEN /\ transactions' = update_state_write(tid, new_state, error_message)
         /\ audit' = [audit EXCEPT ![tid].state_change = @ \cup {<<seen, new_state>>}]
    ELSE UNCHANGED <<transactions, audit>>

\* TransactionRepository.update: the full-row UPDATE from the caller's object.
TransactionRepository_update(txn) ==
    IF txn.id \in DOMAIN transactions
    THEN [transactions EXCEPT
            ![txn.id].state = txn.state,
            ![txn.id].amount = txn.amount,
            ![txn.id].processing_started_at = txn.processing_started_at,
            ![txn.id].completed_at = txn.completed_at,
            ![txn.id].error_message = txn.error_message,
            ![txn.id].balance_before = txn.balance_before,
            ![txn.id].balance_after = txn.balance_after]
    ELSE transactions

\* SELECT * FROM payments WHERE transaction_id = ?  (fetchone: the first row)
get_transaction_payment(tid) ==
    {q \in DOMAIN payments : payments[q].transaction_id = tid}

NewPayment(id, user_id, tid, amount, phone_number, expires_at) ==
    [id |-> id, user_id |-> user_id, transaction_id |-> tid, state |-> "pending",
     amount |-> amount, phone_number |-> phone_number,
     verification_attempts |-> 0, expires_at |-> expires_at]

NewTransaction(id, user_id, type, amount, key, balance_before) ==
    [NoTxn EXCEPT !.id = id, !.user_id = user_id, !.type = type, !.state = PENDING,
                  !.amount = amount, !.idempotency_key = key,
                  !.balance_before = balance_before]

\* ------------------------------------------------------------ bookkeeping
\* Transaction ids a caller can pass: those of stored rows, and one of no row.
KnownTxnIds == DOMAIN transactions \cup {0}

\* deposit_to_ichancy / withdraw_from_ichancy: callers leave the default.
IchancyEnabled == {TRUE}

Goto(p, label) == [procs[p] EXCEPT !.pc = label]

Start(p) ==
    /\ procs[p].pc = "idle"
    /\ ops < MaxOps
    /\ ops' = ops + 1

\* --------------------------------------------- WalletService.initiate_deposit
\* A validation that lets blocked accounts through.
user_is_blocked_never(user) == FALSE

\* Lines 98 and 403: user.state == UserState.BLOCKED.
user_is_blocked(user) == user.state = "blocked"

\* Lines 94-113: read and validate the user, build the Transaction object.
InitiateDeposit(p) ==
    \E user_id \in ArgUserIds, amount \in Amounts, key \in CallerKeys \cup {NULL} :
        /\ Start(p)
        /\ IF user_id \notin DOMAIN users
           THEN /\ procs' = [procs EXCEPT ![p] =
                     [Return("initiate_deposit", "raise", "UserNotFoundException", NULL, 0)
                         EXCEPT !.user_id = user_id]]
                /\ UNCHANGED nextTxn
           ELSE IF user_is_blocked(users[user_id])
           THEN /\ procs' = [procs EXCEPT ![p] =
                     [Return("initiate_deposit", "raise", "UserBlockedException", NULL, 0)
                         EXCEPT !.user_id = user_id]]
                /\ UNCHANGED nextTxn
           ELSE /\ nextTxn <= MaxTxns
                /\ procs' = [procs EXCEPT ![p] =
                     [Idle EXCEPT
                        !.pc = "create_check", !.op = "initiate_deposit",
                        !.user_id = user_id, !.amount = amount,
                        !.user = users[user_id],
                        !.txn = NewTransaction(nextTxn, user_id, "deposit", amount,
                                    IF key = NULL THEN "dep_" \o ToString(nextTxn) ELSE key,
                                    users[user_id].local_balance)]]
                /\ nextTxn' = nextTxn + 1
        /\ UNCHANGED <<users, transactions, payments, ichancy, audit, nextPay, faults, breakerVars, http, bonusVars>>

\* Where a workflow goes on after TransactionRepository.create returned.
AfterCreate(op) ==
    IF op = "initiate_deposit" THEN "id_create_payment" ELSE "iw_processing_read"

\* TransactionRepository.create, lines 206-209: the read-side idempotency
\* check.  Both workflows call create outside any try: the exception reaches
\* the caller.
TransactionRepository_create_Check(p) ==
    /\ procs[p].pc = "create_check"
    /\ procs' = [procs EXCEPT ![p] =
          IF create_finds_existing(procs[p].txn)
          THEN Return(procs[p].op, "raise", "DuplicateTransactionException", NULL, 0)
          ELSE Goto(p, "create_insert")]
    /\ UNCHANGED <<users, transactions, payments, ichancy, audit, nextTxn, nextPay, ops, faults, breakerVars, http, bonusVars>>

\* TransactionRepository.create, lines 211-225: the INSERT, under the schema's
\* constraints.
TransactionRepository_create_Insert(p) ==
    /\ procs[p].pc = "create_insert"
    /\ IF insert_violates_constraint(procs[p].txn)
       THEN /\ procs' = [procs EXCEPT ![p] =
                 Return(procs[p].op, "raise", "IntegrityError", NULL, 0)]
            /\ UNCHANGED transactions
       ELSE /\ transactions' = (procs[p].txn.id :> procs[p].txn) @@ transactions
            /\ procs' = [procs EXCEPT ![p] = Goto(p, AfterCreate(procs[p].op))]
    /\ UNCHANGED <<users, payments, ichancy, audit, nextTxn, nextPay, ops, faults, breakerVars, http, bonusVars>>

\* Lines 124-135: the Payment row, then return (transaction, payment).
InitiateDeposit_CreatePayment(p) ==
    /\ procs[p].pc = "id_create_payment"
    /\ payments' = (nextPay :> NewPayment(nextPay, procs[p].user_id, procs[p].txn.id,
                                          procs[p].amount, NULL, "future")) @@ payments
    /\ nextPay' = nextPay + 1
    /\ procs' = [procs EXCEPT ![p] =
          Return("initiate_deposit", "return", "created", NULL, procs[p].txn.id)]
    /\ UNCHANGED <<users, transactions, ichancy, audit, nextTxn, ops, faults, breakerVars, http, bonusVars>>

\* ----------------------------------------------- WalletService.verify_payment
\* The clock passes a payment's expires_at.
PaymentExpires(q) ==
    /\ q \in DOMAIN payments
    /\ payments[q].expires_at = "future"
    /\ payments' = [payments EXCEPT ![q].expires_at = "past"]
    /\ UNCHANGED <<users, transactions, procs, ichancy, audit, nextTxn, nextPay, ops, faults, breakerVars, http, bonusVars>>

\* PaymentRepository.update_state: UPDATE payments SET state = ? WHERE id = ?
PaymentRepository_update_state(payment_id, new_state) ==
    IF payment_id \in DOMAIN payments
    THEN [payments EXCEPT ![payment_id].state = new_state]
    ELSE payments

\* Lines 157-164: read the payment, compare its expiry with the clock.
VerifyPayment(p) ==
    \E payment_id \in 1..nextPay :
        /\ Start(p)
        /\ procs' = [procs EXCEPT ![p] =
              IF payment_id \notin DOMAIN payments
              THEN Return("verify_payment", "return", "failed", NULL, 0)
              ELSE [Idle EXCEPT !.op = "verify_payment", !.pid = payment_id,
                                !.pc = IF payments[payment_id].expires_at = "past"
                                       THEN "vp_expire" ELSE "vp_increment"]]
        /\ UNCHANGED <<users, transactions, payments, ichancy, audit, nextTxn, nextPay, faults, breakerVars, http, bonusVars>>

\* Line 163: the payment is past its expiry.
VerifyPayment_Expire(p) ==
    /\ procs[p].pc = "vp_expire"
    /\ payments' = PaymentRepository_update_state(procs[p].pid, "expired")
    /\ procs' = [procs EXCEPT ![p] =
          Return("verify_payment", "return", "expired", NULL, 0)]
    /\ UNCHANGED <<users, transactions, ichancy, audit, nextTxn, nextPay, ops, faults, breakerVars, http, bonusVars>>

\* Lines 167-168: PaymentRepository.increment_verification_attempts.
VerifyPayment_Increment(p) ==
    /\ procs[p].pc = "vp_increment"
    /\ payments' = [payments EXCEPT ![procs[p].pid].verification_attempts = @ + 1]
    /\ procs' = [procs EXCEPT ![p] =
          Goto(p, IF payments'[procs[p].pid].verification_attempts > MaxVerificationAttempts
                  THEN "vp_fail" ELSE "vp_mark")]
    /\ UNCHANGED <<users, transactions, ichancy, audit, nextTxn, nextPay, ops, faults, breakerVars, http, bonusVars>>

\* Line 169: too many attempts.
VerifyPayment_Fail(p) ==
    /\ procs[p].pc = "vp_fail"
    /\ payments' = PaymentRepository_update_state(procs[p].pid, "failed")
    /\ procs' = [procs EXCEPT ![p] =
          Return("verify_payment", "return", "failed", NULL, 0)]
    /\ UNCHANGED <<users, transactions, ichancy, audit, nextTxn, nextPay, ops, faults, breakerVars, http, bonusVars>>

\* Lines 173-189 and _mark_payment_verified: the reference is accepted.
VerifyPayment_MarkVerified(p) ==
    /\ procs[p].pc = "vp_mark"
    /\ payments' = PaymentRepository_update_state(procs[p].pid, "verified")
    /\ procs' = [procs EXCEPT ![p] =
          Return("verify_payment", "return", "success", NULL, 0)]
    /\ UNCHANGED <<users, transactions, ichancy, audit, nextTxn, nextPay, ops, faults, breakerVars, http, bonusVars>>

\* --------------------------------------------- WalletService.complete_deposit
\* A storage write inside a workflow's try block raises instead of committing.
StorageFault ==
    /\ faults < MaxFaults
    /\ faults' = faults + 1

\* Lines 239-248: read the transaction, require PENDING.
CompleteDeposit(p) ==
    \E transaction_id \in KnownTxnIds, deposit_to_ichancy \in IchancyEnabled :
        /\ Start(p)
        /\ procs' = [procs EXCEPT ![p] =
              IF transaction_id \notin DOMAIN transactions
              THEN Return("complete_deposit", "return", "failure",
                          "Transaction not found", 0)
              ELSE IF transactions[transaction_id].state # PENDING
              THEN Return("complete_deposit", "return", "failure",
                          "Transaction in invalid state", 0)
              ELSE [Idle EXCEPT !.pc = "cd_get_payment", !.op = "complete_deposit",
                                !.tid = transaction_id, !.flag = deposit_to_ichancy,
                                !.txn = transactions[transaction_id]]]
        /\ UNCHANGED <<users, transactions, payments, ichancy, audit, nextTxn, nextPay, faults, breakerVars, http, bonusVars>>

\* Lines 251-257: the linked payment must be VERIFIED.
CompleteDeposit_GetPayment(p) ==
    /\ procs[p].pc = "cd_get_payment"
    /\ \/ /\ \A q \in get_transaction_payment(procs[p].tid) : payments[q].state # "verified"
          /\ procs' = [procs EXCEPT ![p] =
                Return("complete_deposit", "return", "failure", "Payment not verified", 0)]
       \/ /\ \E q \in get_transaction_payment(procs[p].tid) : payments[q].state = "verified"
          /\ procs' = [procs EXCEPT ![p] = Goto(p, "cd_get_user")]
    /\ UNCHANGED <<users, transactions, payments, ichancy, audit, nextTxn, nextPay, ops, faults, breakerVars, http, bonusVars>>

\* Lines 260-262: read the user row.
CompleteDeposit_GetUser(p) ==
    /\ procs[p].pc = "cd_get_user"
    /\ procs' = [procs EXCEPT ![p] =
          IF procs[p].txn.user_id \notin DOMAIN users
          THEN Return("complete_deposit", "return", "failure", "User not found", 0)
          ELSE [procs[p] EXCEPT !.pc = "cd_processing_read",
                                !.user_id = procs[p].txn.user_id,
                                !.user = users[procs[p].txn.user_id]]]
    /\ UNCHANGED <<users, transactions, payments, ichancy, audit, nextTxn, nextPay, ops, faults, breakerVars, http, bonusVars>>

\* Line 265, update_state lines 258-260: its read of the row.
CompleteDeposit_ProcessingRead(p) ==
    /\ procs[p].pc = "cd_processing_read"
    /\ procs' = [procs EXCEPT ![p] =
          [procs[p] EXCEPT !.pc = "cd_processing_write", !.seen = StoredState(procs[p].tid)]]
    /\ UNCHANGED <<users, transactions, payments, ichancy, audit, nextTxn, nextPay, ops, faults, breakerVars, http, bonusVars>>

\* Line 265, update_state lines 262-288; its result is not looked at.
CompleteDeposit_ProcessingWrite(p) ==
    /\ procs[p].pc = "cd_processing_write"
    /\ TransactionRepository_update_state(procs[p].tid, procs[p].seen, PROCESSING, NULL)
    /\ procs' = [procs EXCEPT ![p] =
          [procs[p] EXCEPT !.seen = NULL,
                           !.moved_to_processing =
                                update_state_accepts(procs[p].seen, PROCESSING),
                           !.pc = IF procs[p].flag /\ procs[p].user.ichancy_username # NULL
                                  THEN "cd_ichancy_deposit" ELSE "cd_update_balance"]]
    /\ UNCHANGED <<users, payments, ichancy, nextTxn, nextPay, ops, faults, breakerVars, http, bonusVars>>

\* Lines 271-294: ichancy_service.deposit answers success, a logical failure,
\* or raises (retries exhausted, breaker open).
CompleteDeposit_IchancyDeposit(p) ==
    /\ procs[p].pc = "cd_ichancy_deposit"
    /\ ichancy' = [ichancy EXCEPT ![procs[p].tid].deposit = @ + 1]
    /\ \E outcome \in {"success", "failure", "raise"} :
          procs' = [procs EXCEPT ![p] =
             CASE outcome = "success" -> Goto(p, "cd_ichancy_balance")
               [] outcome = "failure" ->
                    [procs[p] EXCEPT !.pc = "cd_partial_read",
                                     !.err = "Ichancy deposit failed"]
               [] OTHER ->
                    [procs[p] EXCEPT !.pc = "cd_failed_read", !.err = "NetworkException",
                             !.raised_in = StoredState(procs[p].tid)]]
    /\ UNCHANGED <<users, transactions, payments, audit, nextTxn, nextPay, ops, faults, breakerVars, http, bonusVars>>

\* Lines 297-299: ichancy_service.get_player_balance answers or raises.
CompleteDeposit_IchancyBalance(p) ==
    /\ procs[p].pc = "cd_ichancy_balance"
    /\ \E outcome \in {"answer", "raise"} :
          procs' = [procs EXCEPT ![p] =
             IF outcome = "answer"
             THEN Goto(p, "cd_update_balance")
             ELSE [procs[p] EXCEPT !.pc = "cd_failed_read", !.err = "NetworkException",
                             !.raised_in = StoredState(procs[p].tid)]]
    /\ UNCHANGED <<users, transactions, payments, ichancy, audit, nextTxn, nextPay, ops, faults, breakerVars, http, bonusVars>>

\* Lines 279-283, update_state's read.
CompleteDeposit_PartialRead(p) ==
    /\ procs[p].pc = "cd_partial_read"
    /\ procs' = [procs EXCEPT ![p] =
          [procs[p] EXCEPT !.pc = "cd_partial_write", !.seen = StoredState(procs[p].tid)]]
    /\ UNCHANGED <<users, transactions, payments, ichancy, audit, nextTxn, nextPay, ops, faults, breakerVars, http, bonusVars>>

\* Lines 279-294: update_state(PARTIALLY_FAILED), return failure.
CompleteDeposit_PartialWrite(p) ==
    /\ procs[p].pc = "cd_partial_write"
    /\ TransactionRepository_update_state(procs[p].tid, procs[p].seen,
                                          PARTIALLY_FAILED, procs[p].err)
    /\ procs' = [procs EXCEPT ![p] =
          Return("complete_deposit", "return", "failure", procs[p].err, procs[p].tid)]
    /\ UNCHANGED <<users, payments, ichancy, nextTxn, nextPay, ops, faults, breakerVars, http, bonusVars>>

\* A new balance that forgets what the account already held.
deposit_new_balance_amount_only(user, txn) == txn.amount

\* new_balance = user.local_balance + txn.amount, from the caller's objects.
deposit_new_balance(user, txn) == user.local_balance + txn.amount

\* Lines 302-316: UserRepository.update_balance and its audit entry.
CompleteDeposit_UpdateBalance(p) ==
    /\ procs[p].pc = "cd_update_balance"
    /\ \/ /\ users' = UserRepository_update_balance(
                         procs[p].user_id, deposit_new_balance(procs[p].user, procs[p].txn),
                         procs[p].txn.amount, 0)
          /\ audit' = [audit EXCEPT ![procs[p].tid].balance_change = @ + 1]
          /\ procs' = [procs EXCEPT ![p] = Goto(p, "cd_update_txn")]
          /\ UNCHANGED faults
       \/ /\ StorageFault
          /\ procs' = [procs EXCEPT ![p] =
                [procs[p] EXCEPT !.pc = "cd_failed_read", !.err = "OperationalError",
                             !.raised_in = StoredState(procs[p].tid)]]
          /\ UNCHANGED <<users, audit>>
    /\ UNCHANGED <<transactions, payments, ichancy, nextTxn, nextPay, ops, breakerVars, http, bonusVars>>

\* An audit log that keeps no TRANSACTION_COMPLETE entries.
audit_transaction_complete_dropped(log, tid, final_state) == log

\* FinancialLogger.audit_transaction_complete: a TRANSACTION_COMPLETE entry
\* with the transaction id and final_state.
audit_transaction_complete(log, tid, final_state) ==
    [log EXCEPT ![tid].transaction_complete = @ \cup {final_state}]

\* The Transaction object as complete_deposit leaves it at lines 319-321.
deposit_completed_txn(user, txn) ==
    [txn EXCEPT !.balance_after = <<deposit_new_balance(user, txn)>>,
                !.state = COMPLETED,
                !.completed_at = "set"]

\* Lines 319-337: TransactionRepository.update, return success.
CompleteDeposit_UpdateTxn(p) ==
    /\ procs[p].pc = "cd_update_txn"
    /\ \/ /\ transactions' = TransactionRepository_update(
                                deposit_completed_txn(procs[p].user, procs[p].txn))
          /\ audit' = audit_transaction_complete(audit, procs[p].tid, COMPLETED)
          /\ procs' = [procs EXCEPT ![p] =
                Return("complete_deposit", "return", "success", NULL, procs[p].tid)]
          /\ UNCHANGED faults
       \/ /\ StorageFault
          /\ procs' = [procs EXCEPT ![p] =
                [procs[p] EXCEPT !.pc = "cd_failed_read", !.err = "OperationalError",
                             !.raised_in = StoredState(procs[p].tid)]]
          /\ UNCHANGED <<transactions, audit>>
    /\ UNCHANGED <<users, payments, ichancy, nextTxn, nextPay, ops, breakerVars, http, bonusVars>>

\* Lines 339-346, update_state's read.
CompleteDeposit_FailedRead(p) ==
    /\ procs[p].pc = "cd_failed_read"
    /\ procs' = [procs EXCEPT ![p] =
          [procs[p] EXCEPT !.pc = "cd_failed_write", !.seen = StoredState(procs[p].tid)]]
    /\ UNCHANGED <<users, transactions, payments, ichancy, audit, nextTxn, nextPay, ops, faults, breakerVars, http, bonusVars>>

\* Lines 339-352: update_state(FAILED, str(e)), return failure.
CompleteDeposit_FailedWrite(p) ==
    /\ procs[p].pc = "cd_failed_write"
    /\ TransactionRepository_update_state(procs[p].tid, procs[p].seen, FAILED, procs[p].err)
    /\ procs' = [procs EXCEPT ![p] =
          Return("complete_deposit", "return", "failure", procs[p].err, procs[p].tid)]
    /\ UNCHANGED <<users, payments, ichancy, nextTxn, nextPay, ops, faults, breakerVars, http, bonusVars>>

\* ------------------------------------------ WalletService.initiate_withdrawal
\* A balance precondition that looks at the cumulative deposits.
insufficient_total_deposited(user, amount) == user.total_deposited < amount

\* The balance precondition of lines 407-410, on the User object just read.
insufficient_balance(user, amount) == user.local_balance < amount

\* Lines 399-424: read and validate the user, check the balance, build the
\* Transaction object.
InitiateWithdrawal(p) ==
    \E user_id \in ArgUserIds, amount \in Amounts, key \in CallerKeys \cup {NULL},
       withdraw_from_ichancy \in IchancyEnabled :
        /\ Start(p)
        /\ IF user_id \notin DOMAIN users
           THEN /\ procs' = [procs EXCEPT ![p] =
                     [Return("initiate_withdrawal", "raise", "UserNotFoundException", NULL, 0)
                         EXCEPT !.user_id = user_id]]
                /\ UNCHANGED nextTxn
           ELSE IF user_is_blocked(users[user_id])
           THEN /\ procs' = [procs EXCEPT ![p] =
                     [Return("initiate_withdrawal", "raise", "UserBlockedException", NULL, 0)
                         EXCEPT !.user_id = user_id]]
                /\ UNCHANGED nextTxn
           ELSE IF insufficient_balance(users[user_id], amount)
           THEN /\ procs' = [procs EXCEPT ![p] =
                     [Return("initiate_withdrawal", "raise", "InsufficientBalanceException",
                             NULL, 0) EXCEPT !.user_id = user_id, !.amount = amount]]
                /\ UNCHANGED nextTxn
           ELSE /\ nextTxn <= MaxTxns
                /\ procs' = [procs EXCEPT ![p] =
                     [Idle EXCEPT
                        !.pc = "create_check", !.op = "initiate_withdrawal",
                        !.user_id = user_id, !.amount = amount,
                        !.flag = withdraw_from_ichancy,
                        !.tid = nextTxn,
                        !.user = users[user_id],
                        !.txn = NewTransaction(nextTxn, user_id, "withdrawal", amount,
                                    IF key = NULL THEN "wdr_" \o ToString(nextTxn) ELSE key,
                                    users[user_id].local_balance)]]
                /\ nextTxn' = nextTxn + 1
        /\ UNCHANGED <<users, transactions, payments, ichancy, audit, nextPay, faults, breakerVars, http, bonusVars>>

\* Lines 437-439, update_state's read.
InitiateWithdrawal_ProcessingRead(p) ==
    /\ procs[p].pc = "iw_processing_read"
    /\ procs' = [procs EXCEPT ![p] =
          [procs[p] EXCEPT !.pc = "iw_processing_write", !.seen = StoredState(procs[p].tid)]]
    /\ UNCHANGED <<users, transactions, payments, ichancy, audit, nextTxn, nextPay, ops, faults, breakerVars, http, bonusVars>>

\* Lines 437-442: update_state(PROCESSING); its result is not looked at.
InitiateWithdrawal_ProcessingWrite(p) ==
    /\ procs[p].pc = "iw_processing_write"
    /\ TransactionRepository_update_state(procs[p].tid, procs[p].seen, PROCESSING, NULL)
    /\ procs' = [procs EXCEPT ![p] =
          [procs[p] EXCEPT !.seen = NULL,
                           !.moved_to_processing =
                                update_state_accepts(procs[p].seen, PROCESSING),
                           !.pc = IF procs[p].flag /\ procs[p].user.ichancy_username # NULL
                                  THEN "iw_ichancy_withdrawal" ELSE "iw_update_balance"]]
    /\ UNCHANGED <<users, payments, ichancy, nextTxn, nextPay, ops, faults, breakerVars, http, bonusVars>>

\* Lines 442-459: ichancy_service.withdrawal answers success, a logical
\* failure, or raises.
InitiateWithdrawal_IchancyWithdrawal(p) ==
    /\ procs[p].pc = "iw_ichancy_withdrawal"
    /\ ichancy' = [ichancy EXCEPT ![procs[p].tid].withdrawal = @ + 1]
    /\ \E outcome \in {"success", "failure", "raise"} :
          procs' = [procs EXCEPT ![p] =
             CASE outcome = "success" -> Goto(p, "iw_update_balance")
               [] outcome = "failure" ->
                    [procs[p] EXCEPT !.pc = "iw_failed_read",
                                     !.err = "Ichancy withdrawal failed"]
               [] OTHER ->
                    [procs[p] EXCEPT !.pc = "iw_failed_read", !.err = "NetworkException",
                             !.raised_in = StoredState(procs[p].tid)]]
    /\ UNCHANGED <<users, transactions, payments, audit, nextTxn, nextPay, ops, faults, breakerVars, http, bonusVars>>

\* A debit that takes nothing off the balance.
withdrawal_new_balance_no_debit(user, amount) == user.local_balance

\* new_balance = user.local_balance - amount, from the caller's objects.
withdrawal_new_balance(user, amount) == user.local_balance - amount

\* Lines 462-476: UserRepository.update_balance and its audit entry.
InitiateWithdrawal_UpdateBalance(p) ==
    /\ procs[p].pc = "iw_update_balance"
    /\ \/ /\ users' = UserRepository_update_balance(
                         procs[p].user_id,
                         withdrawal_new_balance(procs[p].user, procs[p].amount),
                         0, procs[p].amount)
          /\ audit' = [audit EXCEPT ![procs[p].tid].balance_change = @ + 1]
          /\ procs' = [procs EXCEPT ![p] = Goto(p, "iw_create_payment")]
          /\ UNCHANGED faults
       \/ /\ StorageFault
          /\ procs' = [procs EXCEPT ![p] =
                [procs[p] EXCEPT !.pc = "iw_failed_read", !.err = "OperationalError",
                             !.raised_in = StoredState(procs[p].tid)]]
          /\ UNCHANGED <<users, audit>>
    /\ UNCHANGED <<transactions, payments, ichancy, nextTxn, nextPay, ops, breakerVars, http, bonusVars>>

\* Lines 479-487: the payout's Payment row.
InitiateWithdrawal_CreatePayment(p) ==
    /\ procs[p].pc = "iw_create_payment"
    /\ \/ /\ payments' = (nextPay :> NewPayment(nextPay, procs[p].user_id, procs[p].tid,
                                                procs[p].amount, "phone", NULL)) @@ payments
          /\ nextPay' = nextPay + 1
          /\ procs' = [procs EXCEPT ![p] = Goto(p, "iw_update_txn")]
          /\ UNCHANGED faults
       \/ /\ StorageFault
          /\ procs' = [procs EXCEPT ![p] =
                [procs[p] EXCEPT !.pc = "iw_failed_read", !.err = "OperationalError",
                             !.raised_in = StoredState(procs[p].tid)]]
          /\ UNCHANGED <<payments, nextPay>>
    /\ UNCHANGED <<users, transactions, ichancy, audit, nextTxn, ops, breakerVars, http, bonusVars>>

\* The Transaction object as initiate_withdrawal leaves it at lines 490-492.
withdrawal_completed_txn(user, txn) ==
    [txn EXCEPT !.balance_after = <<withdrawal_new_balance(user, txn.amount)>>,
                !.state = COMPLETED,
                !.completed_at = "set"]

\* Lines 490-507: TransactionRepository.update, return success.
InitiateWithdrawal_UpdateTxn(p) ==
    /\ procs[p].pc = "iw_update_txn"
    /\ \/ /\ transactions' = TransactionRepository_update(
                                withdrawal_completed_txn(procs[p].user, procs[p].txn))
          /\ audit' = audit_transaction_complete(audit, procs[p].tid, COMPLETED)
          /\ procs' = [procs EXCEPT ![p] =
                Return("initiate_withdrawal", "return", "success", NULL, procs[p].tid)]
          /\ UNCHANGED faults
       \/ /\ StorageFault
          /\ procs' = [procs EXCEPT ![p] =
                [procs[p] EXCEPT !.pc = "iw_failed_read", !.err = "OperationalError",
                             !.raised_in = StoredState(procs[p].tid)]]
          /\ UNCHANGED <<transactions, audit>>
    /\ UNCHANGED <<users, payments, ichancy, nextTxn, nextPay, ops, breakerVars, http, bonusVars>>

\* Lines 449-453 and 512-516, update_state's read.
InitiateWithdrawal_FailedRead(p) ==
    /\ procs[p].pc = "iw_failed_read"
    /\ procs' = [procs EXCEPT ![p] =
          [procs[p] EXCEPT !.pc = "iw_failed_write", !.seen = StoredState(procs[p].tid)]]
    /\ UNCHANGED <<users, transactions, payments, ichancy, audit, nextTxn, nextPay, ops, faults, breakerVars, http, bonusVars>>

\* Lines 449-459 and 512-522: update_state(FAILED, reason), return failure.
InitiateWithdrawal_FailedWrite(p) ==
    /\ procs[p].pc = "iw_failed_write"
    /\ TransactionRepository_update_state(procs[p].tid, procs[p].seen, FAILED, procs[p].err)
    /\ procs' = [procs EXCEPT ![p] =
          Return("initiate_withdrawal", "return", "failure", procs[p].err, procs[p].tid)]
    /\ UNCHANGED <<users, payments, ichancy, nextTxn, nextPay, ops, faults, breakerVars, http, bonusVars>>

\* ------------------------------------- TransactionRepository.update_state
\* The state-transition primitive called on its own (operator re-entry
\* FAILED -> PENDING, cancellation, reversal): lines 258-260, the read.
UpdateState(p) ==
    \E transaction_id \in KnownTxnIds, new_state \in TransactionState :
        /\ Start(p)
        /\ procs' = [procs EXCEPT ![p] =
              [Idle EXCEPT !.pc = "us_write", !.op = "update_state",
                           !.tid = transaction_id, !.new_state = new_state,
                           !.seen = StoredState(transaction_id)]]
        /\ UNCHANGED <<users, transactions, payments, ichancy, audit, nextTxn, nextPay, faults, breakerVars, http, bonusVars>>

\* Lines 262-288: validate against the row read, write, return True/False.
UpdateState_Write(p) ==
    /\ procs[p].pc = "us_write"
    /\ TransactionRepository_update_state(procs[p].tid, procs[p].seen,
                                          procs[p].new_state, NULL)
    /\ procs' = [procs EXCEPT ![p] =
          Return("update_state", "return",
                 IF update_state_accepts(procs[p].seen, procs[p].new_state)
                 THEN "True" ELSE "False",
                 NULL, procs[p].tid)]
    /\ UNCHANGED <<users, payments, ichancy, nextTxn, nextPay, ops, faults, breakerVars, http, bonusVars>>

\* ------------------------------------------------------------------- Next
Next ==
    \/ \E p \in Procs : InitiateDeposit(p)
    \/ \E p \in Procs : TransactionRepository_create_Check(p)
    \/ \E p \in Procs : TransactionRepository_create_Insert(p)
    \/ \E p \in Procs : InitiateDeposit_CreatePayment(p)
    \/ \E q \in 1..MaxTxns : PaymentExpires(q)
    \/ \E p \in Procs : VerifyPayment(p)
    \/ \E p \in Procs : VerifyPayment_Expire(p)
    \/ \E p \in Procs : VerifyPayment_Increment(p)
    \/ \E p \in Procs : VerifyPayment_Fail(p)
    \/ \E p \in Procs : VerifyPayment_MarkVerified(p)
    \/ \E p \in Procs : CompleteDeposit(p)
    \/ \E p \in Procs : CompleteDeposit_GetPayment(p)
    \/ \E p \in Procs : CompleteDeposit_GetUser(p)
    \/ \E p \in Procs : CompleteDeposit_ProcessingRead(p)
    \/ \E p \in Procs : CompleteDeposit_ProcessingWrite(p)
    \/ \E p \in Procs : CompleteDeposit_IchancyDeposit(p)
    \/ \E p \in Procs : CompleteDeposit_IchancyBalance(p)
    \/ \E p \in Procs : CompleteDeposit_PartialRead(p)
    \/ \E p \in Procs : CompleteDeposit_PartialWrite(p)
    \/ \E p \in Procs : CompleteDeposit_UpdateBalance(p)
    \/ \E p \in Procs : CompleteDeposit_UpdateTxn(p)
    \/ \E p \in Procs : CompleteDeposit_FailedRead(p)
    \/ \E p \in Procs : CompleteDeposit_FailedWrite(p)
    \/ \E p \in Procs : InitiateWithdrawal(p)
    \/ \E p \in Procs : InitiateWithdrawal_ProcessingRead(p)
    \/ \E p \in Procs : InitiateWithdrawal_ProcessingWrite(p)
    \/ \E p \in Procs : InitiateWithdrawal_IchancyWithdrawal(p)
    \/ \E p \in Procs : InitiateWithdrawal_UpdateBalance(p)
    \/ \E p \in Procs : InitiateWithdrawal_CreatePayment(p)
    \/ \E p \in Procs : InitiateWithdrawal_UpdateTxn(p)
    \/ \E p \in Procs : InitiateWithdrawal_FailedRead(p)
    \/ \E p \in Procs : InitiateWithdrawal_FailedWrite(p)

Spec == Init /\ [][Next]_vars

\* The workflows together with direct calls of TransactionRepository.update_state.
RepositoryNext ==
    \/ Next
    \/ \E p \in Procs : UpdateState(p)
    \/ \E p \in Procs : UpdateState_Write(p)

RepositorySpec == Init /\ [][RepositoryNext]_vars

\* The same calls over stores that also include a FAILED deposit.
ReentryInit ==
    /\ \E link \in {NULL, "player1"} :
          \/ InitEmpty(link)
          \/ \E a \in Amounts : InitSecondDeposit(link, a)
          \/ \E a \in Amounts, n \in {1, MaxVerificationAttempts} :
                InitVerifiedDeposit(link, a, n)
          \/ \E a \in Amounts : InitFunded(link, a)
          \/ \E a \in Amounts : InitFailedDeposit(link, a)
    /\ procs = [p \in Procs |-> Idle]
    /\ ops = 0
    /\ faults = 0
    /\ BreakerIdle
    /\ ClientIdle
    /\ BonusIdle

ReentrySpec == ReentryInit /\ [][RepositoryNext]_vars

\* ------------------------- TransactionRepository.get_pending_transactions
\* created_at is taken when the Transaction object is built (models.py:145),
\* in the step that draws its id: ids are in creation order.
created_at(tid) == tid

\* The ids of a set of rows, ORDER BY created_at.
RECURSIVE order_by_created_at(_)
order_by_created_at(S) ==
    IF S = {} THEN <<>>
    ELSE LET first == CHOOSE x \in S : \A y \in S : created_at(x) <= created_at(y)
         IN <<first>> \o order_by_created_at(S \ {first})

\* SELECT * FROM transactions WHERE state IN ('pending', 'processing')
\* ORDER BY created_at
get_pending_transactions ==
    order_by_created_at({t \in DOMAIN transactions :
                            transactions[t].state \in {PENDING, PROCESSING}})

\* The recovery sweep (admin/routes.py:513) reads the listing.
GetPendingTransactions(p) ==
    /\ Start(p)
    /\ procs' = [procs EXCEPT ![p] =
          [Return("get_pending_transactions", "return", "rows", NULL, 0)
              EXCEPT !.rows = get_pending_transactions]]
    /\ UNCHANGED <<users, transactions, payments, ichancy, audit, nextTxn, nextPay, faults, breakerVars, http, bonusVars>>

RecoveryNext ==
    \/ Next
    \/ \E p \in Procs : GetPendingTransactions(p)

RecoverySpec == Init /\ [][RecoveryNext]_vars

\* The wallet workflows over stores that also include a blocked account
\* (a funded account an operator has blocked).
InitBlocked(link, a) ==
    /\ users = [u \in UserIds |-> [UserRow(link, a, a) EXCEPT !.state = "blocked"]]
    /\ transactions = <<[FirstDeposit(a) EXCEPT !.state = COMPLETED,
                                                 !.balance_after = <<a>>,
                                                 !.completed_at = "set"]>>
    /\ payments = <<FirstPayment(a, 1)>>
    /\ ichancy = [NoCalls EXCEPT ![1].deposit = IF link = NULL THEN 0 ELSE 1]
    /\ audit = [NoAudit EXCEPT ![1] = [balance_change |-> 1,
                                       state_change |-> {<<PENDING, PROCESSING>>},
                                       transaction_complete |-> {COMPLETED}]]
    /\ nextTxn = 2
    /\ nextPay = 2

ValidationInit ==
    /\ \E link \in {NULL, "player1"} :
          \/ InitEmpty(link)
          \/ \E a \in Amounts : InitSecondDeposit(link, a)
          \/ \E a \in Amounts, n \in {1, MaxVerificationAttempts} :
                InitVerifiedDeposit(link, a, n)
          \/ \E a \in Amounts : InitFunded(link, a)
          \/ \E a \in Amounts : InitBlocked(link, a)
    /\ procs = [p \in Procs |-> Idle]
    /\ ops = 0
    /\ faults = 0
    /\ BreakerIdle
    /\ ClientIdle
    /\ BonusIdle

ValidationSpec == ValidationInit /\ [][Next]_vars

\* ============================================== IchancyService._request
\* What requests.get/post hands back: the HTTP status code and the body.  A
\* body is a JSON object (with the keys _request looks at; NULL = key absent),
\* some other JSON value, or text that response.json() cannot parse.
StatusCodes == {200, 399, 400, 500}

JsonObjects ==
    [kind : {"dict"},
     hasError : {NULL, "yes", "no"},
     error : {NULL, "", "remote error"},
     status : {NULL, "error", "ok"},
     msg : {NULL, "remote msg"},
     message : {NULL, "remote message"}]

NoKeys(kind) ==
    [kind |-> kind, hasError |-> NULL, error |-> NULL, status |-> NULL,
     msg |-> NULL, message |-> NULL]

Bodies == JsonObjects \cup {NoKeys("list"), NoKeys("text")}

Responses == [status_code : StatusCodes, body : Bodies]

IchancyResponse(success, error) == [success |-> success, error |-> error]

\* Python truth value of data.get(key): None and "" are false.
truthy(v) == v \notin {NULL, ""}

has_api_error_hasError_only(data) == data.hasError = "yes"

\* data.get("hasError") == "yes" or data.get("error") or data.get("status") == "error"
has_api_error(data) ==
    \/ data.hasError = "yes"
    \/ truthy(data.error)
    \/ data.status = "error"

\* data.get("msg") or data.get("error") or data.get("message", "Unknown error")
error_msg(data) ==
    IF truthy(data.msg) THEN data.msg
    ELSE IF truthy(data.error) THEN data.error
    ELSE IF data.message = NULL THEN "Unknown error"
    ELSE data.message

\* The IchancyResponse _request builds from a response that arrived.
request_response(response) ==
    IF response.status_code >= 400
    THEN IchancyResponse(FALSE, "HTTP error")
    ELSE IF response.body.kind = "text"
    THEN IchancyResponse(TRUE, NULL)                 \* except ValueError
    ELSE IF response.body.kind = "dict" /\ has_api_error(response.body)
    THEN IchancyResponse(FALSE, error_msg(response.body))
    ELSE IchancyResponse(TRUE, NULL)

\* ------------------------------------------- utils/retry.py CircuitBreaker
\* A state query that half-opens an OPEN breaker without waiting.
state_property_no_wait(b, t) ==
    IF b._state = OPEN
    THEN [b EXCEPT !._state = HALF_OPEN, !._half_open_calls = 0]
    ELSE b

\* CircuitBreaker.state: reading it moves OPEN to HALF_OPEN once
\* recovery_timeout has elapsed since the last failure.
state_property(b, t) ==
    IF /\ b._state = OPEN
       /\ b._last_failure_time # <<>>
       /\ t - b._last_failure_time[1] >= recovery_timeout
    THEN [b EXCEPT !._state = HALF_OPEN, !._half_open_calls = 0]
    ELSE b

\* A record_success that closes a HALF_OPEN breaker on the first success.
record_success_closes_at_once(b) ==
    IF b._state = HALF_OPEN
    THEN [b EXCEPT !._half_open_calls = @ + 1, !._state = CLOSED, !._failure_count = 0]
    ELSE IF b._state = CLOSED
    THEN [b EXCEPT !._failure_count = 0]
    ELSE b

\* A record_success that also closes an OPEN breaker.
record_success_closes_open(b) ==
    IF b._state = HALF_OPEN
    THEN IF b._half_open_calls + 1 >= half_open_max_calls
         THEN [b EXCEPT !._half_open_calls = @ + 1, !._state = CLOSED,
                        !._failure_count = 0]
         ELSE [b EXCEPT !._half_open_calls = @ + 1]
    ELSE [b EXCEPT !._state = CLOSED, !._failure_count = 0]

\* CircuitBreaker.record_success.
record_success(b) ==
    IF b._state = HALF_OPEN
    THEN IF b._half_open_calls + 1 >= half_open_max_calls
         THEN [b EXCEPT !._half_open_calls = @ + 1, !._state = CLOSED,
                        !._failure_count = 0]
         ELSE [b EXCEPT !._half_open_calls = @ + 1]
    ELSE IF b._state = CLOSED
    THEN [b EXCEPT !._failure_count = 0]
    ELSE b

\* A record_failure that applies the threshold rule only.
record_failure_threshold_only(b, t) ==
    LET counted == [b EXCEPT !._failure_count = @ + 1, !._last_failure_time = <<t>>]
    IN IF b._state = CLOSED /\ counted._failure_count >= failure_threshold
       THEN [counted EXCEPT !._state = OPEN]
       ELSE counted

\* CircuitBreaker.record_failure.
record_failure(b, t) ==
    LET counted == [b EXCEPT !._failure_count = @ + 1, !._last_failure_time = <<t>>]
    IN IF b._state = HALF_OPEN
       THEN [counted EXCEPT !._state = OPEN]
       ELSE IF b._state = CLOSED /\ counted._failure_count >= failure_threshold
       THEN [counted EXCEPT !._state = OPEN]
       ELSE counted

\* A breaker that refuses trial calls and lets requests through when OPEN.
can_execute_while_open(state) == state \in {CLOSED, OPEN}

\* A breaker that lets every request through.
can_execute_ignores_open(state) == TRUE

\* CircuitBreaker.can_execute, on the state the property returned.
can_execute(state) == state \in {CLOSED, HALF_OPEN}

\* ------------------------------------------------ utils/retry.py retry_async
\* A wrapped ichancy_service method is called: lines 130-135.
RetryAsync(c) ==
    /\ calls[c].pc \in {"idle", "done"}
    /\ ncalls < MaxCalls
    /\ ncalls' = ncalls + 1
    /\ calls' = [calls EXCEPT ![c] = [NoCall EXCEPT !.pc = "check"]]
    /\ UNCHANGED <<breaker, now, recorded, trials, successes, walletVars, http, bonusVars>>

\* Lines 137-147: the breaker check at the top of the loop; either the
\* request is rejected with NetworkException or func is invoked.
RetryAsync_Check(c) ==
    /\ calls[c].pc = "check"
    /\ breaker' = state_property(breaker, now)
    /\ calls' = [calls EXCEPT ![c] =
          IF can_execute(breaker'._state)
          THEN [calls[c] EXCEPT !.pc = "func", !.invoked = @ + 1]
          ELSE [calls[c] EXCEPT !.pc = "done", !.result = "circuit breaker open"]]
    /\ trials' = IF breaker'._state # HALF_OPEN THEN trials
                 ELSE IF breaker._state # HALF_OPEN THEN 1
                 ELSE trials + 1
    /\ successes' = IF breaker._state # HALF_OPEN /\ breaker'._state = HALF_OPEN
                    THEN 0 ELSE successes
    /\ UNCHANGED <<now, ncalls, recorded, walletVars, http, bonusVars>>

\* What the wrapped wallet operation may return: the IchancyResponse built
\* from a plain answer, from an answer with hasError = "yes", and from an
\* HTTP 500.
FuncResponses ==
    {request_response(r) : r \in
        {[status_code |-> 200, body |-> NoKeys("dict")],
         [status_code |-> 200, body |-> [NoKeys("dict") EXCEPT !.hasError = "yes"]],
         [status_code |-> 500, body |-> NoKeys("text")]}}

\* A retry loop that reports a failure to the breaker when the response
\* says success = False.
record_result_by_response(b, result, t) ==
    IF result.success THEN record_success(b) ELSE record_failure(b, t)

\* Lines 147-151: whatever func returned, circuit_breaker.record_success().
record_result(b, result, t) == record_success(b)

\* Lines 147-153: func returns; record_success; the result is returned.
Func_Returns(c) ==
    /\ calls[c].pc = "func"
    /\ \E result \in FuncResponses :
          /\ breaker' = record_result(breaker, result, now)
          /\ calls' = [calls EXCEPT ![c] =
                [calls[c] EXCEPT !.pc = "done", !.result = "result",
                                 !.response = <<result>>]]
    /\ recorded' = 0
    /\ successes' = IF breaker._state = HALF_OPEN THEN successes + 1 ELSE successes
    /\ UNCHANGED <<now, ncalls, trials, walletVars, http, bonusVars>>

\* A loop that gives up one attempt early.
retries_left_one_less(attempt) == attempt < max_retries - 1

\* Line 162: `if attempt < max_retries`, with attempt in range(max_retries + 1).
retries_left(attempt) == attempt < max_retries

\* Lines 155-175: func raises one of `exceptions`; record_failure; sleep
\* before the next attempt, or raise last_exception after the last one.
Func_Raises(c) ==
    /\ calls[c].pc = "func"
    /\ breaker' = record_failure(breaker, now)
    /\ recorded' = recorded + 1
    /\ calls' = [calls EXCEPT ![c] =
          IF retries_left(calls[c].attempt)
          THEN [calls[c] EXCEPT !.pc = "sleep",
                                !.last_exception = <<calls[c].attempt>>,
                                !.sleeps = Append(@, calls[c].current_delay)]
          ELSE [calls[c] EXCEPT !.pc = "done", !.result = "last_exception",
                                !.last_exception = <<calls[c].attempt>>]]
    /\ UNCHANGED <<now, ncalls, trials, successes, walletVars, http, bonusVars>>

\* func raises an exception outside `exceptions`: it propagates, the breaker
\* records nothing.
Func_RaisesOther(c) ==
    /\ calls[c].pc = "func"
    /\ calls' = [calls EXCEPT ![c] =
          [calls[c] EXCEPT !.pc = "done", !.result = "other exception"]]
    /\ UNCHANGED <<breaker, now, ncalls, recorded, trials, successes, walletVars, http, bonusVars>>

\* A retry loop that never lengthens its delay.
next_delay_constant(current_delay) == current_delay

\* Line 171: current_delay *= backoff.
next_delay(current_delay) == current_delay * backoff

\* Lines 170-171: asyncio.sleep(current_delay) returns, current_delay is
\* multiplied, the loop goes round.  `sleeps` lists the durations slept.
RetryAsync_Sleep(c) ==
    /\ calls[c].pc = "sleep"
    /\ calls' = [calls EXCEPT ![c] =
          [calls[c] EXCEPT !.pc = "check", !.attempt = @ + 1,
                           !.current_delay = next_delay(@)]]
    /\ UNCHANGED <<breaker, now, ncalls, recorded, trials, successes, walletVars, http, bonusVars>>

\* Time passes.
Tick ==
    /\ now < MaxTicks * TickSeconds
    /\ now' = now + TickSeconds
    /\ UNCHANGED <<breaker, calls, ncalls, recorded, trials, successes, walletVars, http, bonusVars>>

BreakerInit ==
    /\ InitEmpty(NULL)
    /\ procs = [p \in Procs |-> Idle]
    /\ ops = 0
    /\ faults = 0
    /\ BreakerIdle
    /\ ClientIdle
    /\ BonusIdle

BreakerNext ==
    \/ \E c \in Callers : RetryAsync(c)
    \/ \E c \in Callers : RetryAsync_Check(c)
    \/ \E c \in Callers : Func_Returns(c)
    \/ \E c \in Callers : Func_Raises(c)
    \/ \E c \in Callers : Func_RaisesOther(c)
    \/ \E c \in Callers : RetryAsync_Sleep(c)
    \/ Tick

BreakerSpec == BreakerInit /\ [][BreakerNext]_vars

\* The event loop runs every coroutine that is ready, asyncio.sleep returns,
\* and the wrapped HTTP operation ends (it has a timeout).
BreakerFairSpec ==
    /\ BreakerSpec
    /\ \A c \in Callers :
          /\ WF_vars(RetryAsync_Check(c))
          /\ WF_vars(Func_Returns(c) \/ Func_Raises(c) \/ Func_RaisesOther(c))
          /\ WF_vars(RetryAsync_Sleep(c))

\* ------------------------------- IchancyService._request as a coroutine
\* asyncio.to_thread(_do_req) returns the response and _request classifies it.
Request_Returns ==
    /\ http.pc = "sent"
    /\ http' = [http EXCEPT !.pc = "returned",
                            !.result = request_response(http.response)]
    /\ UNCHANGED <<walletVars, breakerVars, bonusVars>>

\* requests.Timeout, requests.ConnectionError or any other exception of
\* _do_req: _request raises and builds no IchancyResponse.
Request_Raises ==
    /\ http.pc = "sent"
    /\ http' = [http EXCEPT !.pc = "raised"]
    /\ UNCHANGED <<walletVars, breakerVars, bonusVars>>

ClientInit ==
    /\ InitEmpty(NULL)
    /\ procs = [p \in Procs |-> Idle]
    /\ ops = 0
    /\ faults = 0
    /\ BreakerIdle
    /\ \E r \in Responses : http = [pc |-> "sent", response |-> r, result |-> NULL]
    /\ BonusIdle

ClientNext == Request_Returns \/ Request_Raises

ClientSpec == ClientInit /\ [][ClientNext]_vars

\* ------------------------------------------- three callers, one deposit
\* Three coroutines of the event loop.  The store holds a completed deposit
\* and a second deposit whose payment is VERIFIED; the third caller has
\* already called complete_deposit for the second deposit and is suspended
\* at the await of update_state(PROCESSING), having passed lines 239-262.
ThreeProcs == Procs \cup {"p3"}

CompleteDeposit_InFlight(transaction_id) ==
    [Idle EXCEPT !.pc = "cd_processing_read", !.op = "complete_deposit",
                 !.tid = transaction_id, !.flag = TRUE,
                 !.txn = transactions[transaction_id],
                 !.user_id = transactions[transaction_id].user_id,
                 !.user = users[transactions[transaction_id].user_id]]

ContentionInit ==
    /\ \E link \in {NULL, "player1"}, a \in Amounts : InitSecondDeposit(link, a)
    /\ procs = [p \in ThreeProcs |->
                   IF p \in Procs THEN Idle ELSE CompleteDeposit_InFlight(2)]
    /\ ops = 0
    /\ faults = 0
    /\ BreakerIdle
    /\ ClientIdle
    /\ BonusIdle

\* The steps of complete_deposit after the call.
CompleteDeposit_Step(p) ==
    \/ CompleteDeposit_GetPayment(p)
    \/ CompleteDeposit_GetUser(p)
    \/ CompleteDeposit_ProcessingRead(p)
    \/ CompleteDeposit_ProcessingWrite(p)
    \/ CompleteDeposit_IchancyDeposit(p)
    \/ CompleteDeposit_IchancyBalance(p)
    \/ CompleteDeposit_PartialRead(p)
    \/ CompleteDeposit_PartialWrite(p)
    \/ CompleteDeposit_UpdateBalance(p)
    \/ CompleteDeposit_UpdateTxn(p)
    \/ CompleteDeposit_FailedRead(p)
    \/ CompleteDeposit_FailedWrite(p)

ContentionNext ==
    \/ \E p \in ThreeProcs : CompleteDeposit(p)
    \/ \E p \in ThreeProcs : CompleteDeposit_Step(p)

ContentionSpec == ContentionInit /\ [][ContentionNext]_vars

\* The event loop resumes every coroutine whose await has finished: storage
\* calls end, and the wallet client ends by its timeout and retry limit.
ContentionFairSpec ==
    ContentionSpec /\ \A p \in ThreeProcs : WF_vars(CompleteDeposit_Step(p))

\* ------------------------------------------------ BonusService.apply_bonus
ArgCodes == {"WELCOME", "SUMMER"}

\* SELECT * FROM bonuses WHERE code = ? AND is_active = 1
BonusRepository_get_by_code(code) ==
    {b \in BonusIds : bonuses[b].code = code /\ bonuses[b].is_active}

\* SELECT 1 FROM bonus_usage WHERE bonus_id = ? AND user_id = ?
BonusRepository_check_user_usage(bonus_id, user_id) ==
    \E usage \in bonus_usage : usage.bonus_id = bonus_id /\ usage.user_id = user_id

\* validate_bonus_code lines 126-132; percentages are whole multiples of 100.
calculated_amount(bonus, deposit_amount) ==
    IF bonus.bonus_type = "percentage"
    THEN deposit_amount * (bonus.value \div 100)
    ELSE bonus.value

\* A bonus Transaction built without an idempotency key.
bonus_idempotency_key_none(bonus_id, user_id) == NULL

\* Line 192: idempotency_key=f"bonus_{bonus.id}_{user_id}".
bonus_idempotency_key(bonus_id, user_id) ==
    "bonus_" \o bonus_id \o "_" \o ToString(user_id)

BonusFailure(error) == Return("apply_bonus", "return", "failure", error, 0)

\* Lines 155-167: the deposit must exist and be COMPLETED.
ApplyBonus(p) ==
    \E code \in ArgCodes, user_id \in ArgUserIds, deposit_transaction_id \in KnownTxnIds :
        /\ Start(p)
        /\ procs' = [procs EXCEPT ![p] =
              IF deposit_transaction_id \notin DOMAIN transactions
              THEN BonusFailure("Deposit transaction not found")
              ELSE IF transactions[deposit_transaction_id].state # COMPLETED
              THEN BonusFailure("Deposit must be completed before applying bonus")
              ELSE [Idle EXCEPT !.pc = "ab_get_bonus", !.op = "apply_bonus",
                                !.code = code, !.user_id = user_id,
                                !.amount = transactions[deposit_transaction_id].amount]]
        /\ UNCHANGED <<users, transactions, payments, ichancy, audit, nextTxn, nextPay, faults, breakerVars, http, bonusVars>>

\* validate_bonus_code lines 72-104: the bonus row and the checks on it.
ApplyBonus_GetBonus(p) ==
    /\ procs[p].pc = "ab_get_bonus"
    /\ LET found == BonusRepository_get_by_code(procs[p].code)
       IN procs' = [procs EXCEPT ![p] =
             IF found = {}
             THEN BonusFailure("Invalid bonus code")
             ELSE LET b == CHOOSE x \in found : TRUE
                  IN IF bonuses[b].expired
                     THEN BonusFailure("This bonus code has expired")
                     ELSE IF /\ bonuses[b].max_uses # 0
                             /\ bonuses[b].uses_count >= bonuses[b].max_uses
                     THEN BonusFailure("This bonus code has reached its maximum uses")
                     ELSE [procs[p] EXCEPT !.pc = "ab_check_usage", !.bonus_id = b]]
    /\ UNCHANGED <<users, transactions, payments, ichancy, audit, nextTxn, nextPay, ops, faults, breakerVars, http, bonusVars>>

\* validate_bonus_code lines 107-138: the usage check, the minimum deposit,
\* the amount.
ApplyBonus_CheckUsage(p) ==
    /\ procs[p].pc = "ab_check_usage"
    /\ LET bonus == bonuses[procs[p].bonus_id]
       IN procs' = [procs EXCEPT ![p] =
             IF BonusRepository_check_user_usage(procs[p].bonus_id, procs[p].user_id)
             THEN BonusFailure("You have already used this bonus code")
             ELSE IF procs[p].amount < bonus.min_deposit
             THEN BonusFailure("Minimum deposit required for this bonus")
             ELSE [procs[p] EXCEPT !.pc = "ab_get_user",
                                   !.amount = calculated_amount(bonus, procs[p].amount)]]
    /\ UNCHANGED <<users, transactions, payments, ichancy, audit, nextTxn, nextPay, ops, faults, breakerVars, http, bonusVars>>

\* Lines 181-195: read the user, build the bonus Transaction object.
ApplyBonus_GetUser(p) ==
    /\ procs[p].pc = "ab_get_user"
    /\ IF procs[p].user_id \notin DOMAIN users
       THEN /\ procs' = [procs EXCEPT ![p] =
                 Return("apply_bonus", "raise", "UserNotFoundException", NULL, 0)]
            /\ UNCHANGED nextTxn
       ELSE /\ nextTxn <= MaxTxns
            /\ LET user == users[procs[p].user_id]
               IN procs' = [procs EXCEPT ![p] =
                     [procs[p] EXCEPT
                        !.pc = "ab_create_check",
                        !.user = user,
                        !.tid = nextTxn,
                        !.txn = [NewTransaction(nextTxn, procs[p].user_id, "bonus",
                                    procs[p].amount,
                                    bonus_idempotency_key(procs[p].bonus_id, procs[p].user_id),
                                    user.local_balance)
                                 EXCEPT !.state = COMPLETED,
                                        !.balance_after = <<user.local_balance + procs[p].amount>>,
                                        !.completed_at = "set"]]]
            /\ nextTxn' = nextTxn + 1
    /\ UNCHANGED <<users, transactions, payments, ichancy, audit, nextPay, ops, faults, breakerVars, http, bonusVars>>

\* TransactionRepository.create lines 206-209, inside apply_bonus's try: the
\* exception becomes a failure result.
ApplyBonus_CreateCheck(p) ==
    /\ procs[p].pc = "ab_create_check"
    /\ procs' = [procs EXCEPT ![p] =
          IF create_finds_existing(procs[p].txn)
          THEN BonusFailure("DuplicateTransactionException")
          ELSE Goto(p, "ab_create_insert")]
    /\ UNCHANGED <<users, transactions, payments, ichancy, audit, nextTxn, nextPay, ops, faults, breakerVars, http, bonusVars>>

\* TransactionRepository.create lines 211-225: the INSERT has no completed_at
\* column.
ApplyBonus_CreateInsert(p) ==
    /\ procs[p].pc = "ab_create_insert"
    /\ \/ /\ IF insert_violates_constraint(procs[p].txn)
             THEN /\ procs' = [procs EXCEPT ![p] = BonusFailure("IntegrityError")]
                  /\ UNCHANGED transactions
             ELSE /\ transactions' =
                        (procs[p].txn.id :> [procs[p].txn EXCEPT !.completed_at = NULL])
                        @@ transactions
                  /\ procs' = [procs EXCEPT ![p] = Goto(p, "ab_update_balance")]
          /\ UNCHANGED faults
       \/ /\ StorageFault
          /\ procs' = [procs EXCEPT ![p] = BonusFailure("OperationalError")]
          /\ UNCHANGED transactions
    /\ UNCHANGED <<users, payments, ichancy, audit, nextTxn, nextPay, ops, breakerVars, http, bonusVars>>

\* Lines 198-205: UserRepository.update_balance with deposit_delta.
ApplyBonus_UpdateBalance(p) ==
    /\ procs[p].pc = "ab_update_balance"
    /\ \/ /\ users' = UserRepository_update_balance(
                         procs[p].user_id,
                         procs[p].user.local_balance + procs[p].amount,
                         procs[p].amount, 0)
          /\ bonus_credits' = [bonus_credits EXCEPT
                                  ![procs[p].bonus_id, procs[p].user_id] = @ + 1]
          /\ procs' = [procs EXCEPT ![p] = Goto(p, "ab_record_usage")]
          /\ UNCHANGED faults
       \/ /\ StorageFault
          /\ procs' = [procs EXCEPT ![p] = BonusFailure("OperationalError")]
          /\ UNCHANGED <<users, bonus_credits>>
    /\ UNCHANGED <<transactions, payments, ichancy, audit, nextTxn, nextPay, ops, breakerVars, http, bonuses, bonus_usage>>

\* models.py line 360: UNIQUE(bonus_id, user_id).
usage_violates_constraint(bonus_id, user_id) ==
    \E usage \in bonus_usage : usage.bonus_id = bonus_id /\ usage.user_id = user_id

\* Lines 207-227: BonusRepository.record_usage (INSERT and uses_count + 1 in
\* one storage transaction), return success.
ApplyBonus_RecordUsage(p) ==
    /\ procs[p].pc = "ab_record_usage"
    /\ \/ /\ IF usage_violates_constraint(procs[p].bonus_id, procs[p].user_id)
             THEN /\ procs' = [procs EXCEPT ![p] = BonusFailure("IntegrityError")]
                  /\ UNCHANGED <<bonuses, bonus_usage>>
             ELSE /\ bonus_usage' = bonus_usage \cup
                        {[bonus_id |-> procs[p].bonus_id, user_id |-> procs[p].user_id,
                          transaction_id |-> procs[p].tid]}
                  /\ bonuses' = [bonuses EXCEPT ![procs[p].bonus_id].uses_count = @ + 1]
                  /\ procs' = [procs EXCEPT ![p] =
                        Return("apply_bonus", "return", "success", NULL, procs[p].tid)]
          /\ UNCHANGED faults
       \/ /\ StorageFault
          /\ procs' = [procs EXCEPT ![p] = BonusFailure("OperationalError")]
          /\ UNCHANGED <<bonuses, bonus_usage>>
    /\ UNCHANGED <<users, transactions, payments, ichancy, audit, nextTxn, nextPay, ops, breakerVars, http, bonus_credits>>

\* Stores with a completed deposit, and either bonus.
BonusInit ==
    /\ \E link \in {NULL, "player1"}, a \in Amounts :
          InitFunded(link, a) \/ InitSecondDeposit(link, a)
    /\ procs = [p \in Procs |-> Idle]
    /\ ops = 0
    /\ faults = 0
    /\ BreakerIdle
    /\ ClientIdle
    /\ BonusStore(FixedBonus) \/ BonusStore(PercentageBonus)

BonusNext ==
    \/ \E p \in Procs : ApplyBonus(p)
    \/ \E p \in Procs : ApplyBonus_GetBonus(p)
    \/ \E p \in Procs : ApplyBonus_CheckUsage(p)
    \/ \E p \in Procs : ApplyBonus_GetUser(p)
    \/ \E p \in Procs : ApplyBonus_CreateCheck(p)
    \/ \E p \in Procs : ApplyBonus_CreateInsert(p)
    \/ \E p \in Procs : ApplyBonus_UpdateBalance(p)
    \/ \E p \in Procs : ApplyBonus_RecordUsage(p)
    \/ \E p \in Procs : CompleteDeposit(p)
    \/ \E p \in Procs : CompleteDeposit_Step(p)
    \/ \E p \in Procs : InitiateWithdrawal(p)
    \/ \E p \in Procs : TransactionRepository_create_Check(p)
    \/ \E p \in Procs : TransactionRepository_create_Insert(p)
    \/ \E p \in Procs : InitiateWithdrawal_ProcessingRead(p)
    \/ \E p \in Procs : InitiateWithdrawal_ProcessingWrite(p)
    \/ \E p \in Procs : InitiateWithdrawal_IchancyWithdrawal(p)
    \/ \E p \in Procs : InitiateWithdrawal_UpdateBalance(p)
    \/ \E p \in Procs : InitiateWithdrawal_CreatePayment(p)
    \/ \E p \in Procs : InitiateWithdrawal_UpdateTxn(p)
    \/ \E p \in Procs : InitiateWithdrawal_FailedRead(p)
    \/ \E p \in Procs : InitiateWithdrawal_FailedWrite(p)

BonusSpec == BonusInit /\ [][BonusNext]_vars

\* ================================================================ properties
\* The legal-transition table as the specification states it.
LegalEdges ==
    {<<PENDING, PROCESSING>>, <<PENDING, CANCELLED>>,
     <<PROCESSING, COMPLETED>>, <<PROCESSING, FAILED>>, <<PROCESSING, PARTIALLY_FAILED>>,
     <<COMPLETED, REVERSED>>, <<FAILED, PENDING>>}

Workflows == {"complete_deposit", "initiate_withdrawal"}

\* The caller that takes the step, if the step is a caller's.
Acts(p) == procs'[p] # procs[p]

RECURSIVE SumDeltas(_)
SumDeltas(S) ==
    IF S = {} THEN 0
    ELSE LET t == CHOOSE x \in S : TRUE
         IN (transactions[t].balance_after[1] - transactions[t].balance_before)
            + SumDeltas(S \ {t})

CompletedOf(u) ==
    {t \in DOMAIN transactions :
        transactions[t].user_id = u /\ transactions[t].state = COMPLETED}

\* C1: every account's stored local_balance equals the sum of
\* balance_after - balance_before over its COMPLETED transactions, in every
\* reachable state.
C1_LedgerConsistency ==
    \A u \in DOMAIN users : users[u].local_balance = SumDeltas(CompletedOf(u))

\* C2: of two concurrent deposit requests carrying one idempotency key, the
\* one that reaches the store second (at its existence check or, having passed
\* the check, at its insert) creates no second Transaction and returns the
\* stored (first) Transaction to its caller.
C2_ConcurrentSameKeyReturnsOriginal ==
    [][\A p \in Procs :
          (/\ procs[p].pc \in {"create_check", "create_insert"}
           /\ procs[p].op = "initiate_deposit"
           /\ Acts(p)
           /\ get_by_idempotency_key(procs[p].txn.idempotency_key) # {})
          => /\ transactions' = transactions
             /\ procs'[p].result.kind = "return"
             /\ procs'[p].result.transaction_id
                   \in get_by_idempotency_key(procs[p].txn.idempotency_key)]_vars

\* C3: for every deposit transaction the external credit call is made at most
\* once and the local balance is credited at most once, however many
\* complete_deposit invocations are issued for it.
C3_AtMostOnceSettlement ==
    \A t \in DOMAIN transactions :
        transactions[t].type = "deposit"
        => ichancy[t].deposit <= 1 /\ audit[t].balance_change <= 1

\* Both callers have returned success from workflows on different transactions.
BothSucceeded ==
    /\ \A p \in Procs :
          /\ procs[p].pc = "idle"
          /\ procs[p].op \in Workflows
          /\ procs[p].result.value = "success"
    /\ \A p, q \in Procs :
          p # q => procs[p].result.transaction_id # procs[q].result.transaction_id

\* C4: when two workflows on one account have both finished successfully, the
\* account's local_balance is its starting balance plus both deltas, each
\* once.  (The store starts with local_balance = total_deposited -
\* total_withdrawn, and the cumulative columns take every delta by an in-place
\* increment, so the right-hand side is the starting balance plus the deltas.)
C4_NoLostUpdate ==
    BothSucceeded
    => \A u \in DOMAIN users :
          users[u].local_balance = users[u].total_deposited - users[u].total_withdrawn

\* C5: a withdrawal request for more than the account's stored local_balance
\* raises the insufficient-balance error and leaves the store as it was: no
\* Transaction row, no Payment row, no external call, balances unchanged.
C5_InsufficientBalanceRejected ==
    [][\A p \in Procs :
          (/\ procs[p].pc = "idle"
           /\ Acts(p)
           /\ procs'[p].op = "initiate_withdrawal"
           /\ procs'[p].user_id \in DOMAIN users
           /\ users[procs'[p].user_id].state # "blocked"
           /\ procs'[p].amount > users[procs'[p].user_id].local_balance)
          => /\ procs'[p].pc = "idle"
             /\ procs'[p].result.kind = "raise"
             /\ procs'[p].result.value = "InsufficientBalanceException"
             /\ UNCHANGED <<users, transactions, payments, ichancy, nextTxn, nextPay>>]_vars

\* A caller has been refused a withdrawal larger than the stored balance.
C5_Refused ==
    \E p \in Procs :
        /\ Returned(p)
        /\ procs[p].op = "initiate_withdrawal"
        /\ procs[p].result.value = "InsufficientBalanceException"
        /\ procs[p].amount > users[procs[p].user_id].local_balance

\* C6: every local debit made by initiate_withdrawal happens in a state whose
\* stored local_balance is at least the amount, and leaves the stored
\* local_balance non-negative.
C6_DebitAgainstLatestBalance ==
    [][\A p \in Procs :
          (/\ procs[p].pc = "iw_update_balance"
           /\ Acts(p)
           /\ users' # users)
          => /\ users[procs[p].user_id].local_balance >= procs[p].amount
             /\ users'[procs[p].user_id].local_balance >= 0]_vars

\* C7: a direct state-transition request whose (current, requested) pair is
\* not in the legal-transition table fails with the invalid-transition error
\* and leaves the stored transaction unchanged.
C7_IllegalTransitionRaises ==
    [][\A p \in Procs :
          (/\ procs[p].pc = "us_write"
           /\ Acts(p)
           /\ procs[p].seen # "missing"
           /\ <<procs[p].seen, procs[p].new_state>> \notin LegalEdges)
          => /\ transactions' = transactions
             /\ procs'[p].result.kind = "raise"
             /\ procs'[p].result.value = "TransactionStateException"]_vars

\* C8: every change of a stored transaction state made by a workflow step is
\* an edge of the legal-transition table.
C8_OnlyLegalEdges ==
    [][\A t \in DOMAIN transactions :
          transactions'[t].state # transactions[t].state
          => <<transactions[t].state, transactions'[t].state>> \in LegalEdges]_vars

\* C9: a stored state of CANCELLED, REVERSED or PARTIALLY_FAILED never changes
\* again, and a stored state of COMPLETED changes only to REVERSED.
C9_TerminalStatesFrozen ==
    [][\A t \in DOMAIN transactions :
          /\ transactions[t].state \in {CANCELLED, REVERSED, PARTIALLY_FAILED}
                => transactions'[t].state = transactions[t].state
          /\ transactions[t].state = COMPLETED
                => transactions'[t].state \in {COMPLETED, REVERSED}]_vars

\* C10: no two stored transactions share a non-null idempotency key.
C10_IdempotencyKeyUnique ==
    \A t1, t2 \in DOMAIN transactions :
        (/\ t1 # t2
         /\ transactions[t1].idempotency_key # NULL)
        => transactions[t1].idempotency_key # transactions[t2].idempotency_key

\* A create passed its existence check, and its insert was then refused
\* because another request had stored the key in between.
C10_InsertRefused ==
    \E p \in Procs :
        /\ Returned(p)
        /\ procs[p].result.value = "IntegrityError"
        /\ \E t \in DOMAIN transactions :
              transactions[t].idempotency_key \in CallerKeys

\* C11: a create request (initiate_deposit or initiate_withdrawal) whose
\* idempotency key already belongs to a stored transaction is not an error:
\* the caller is returned the stored transaction, and the step adds no
\* Transaction or Payment row, makes no external call and changes no balance.
C11_IdempotencyConflictReturnsOriginal ==
    [][\A p \in Procs :
          (/\ procs[p].pc = "create_check"
           /\ Acts(p)
           /\ create_finds_existing(procs[p].txn))
          => /\ procs'[p].result.kind = "return"
             /\ procs'[p].result.transaction_id
                   \in get_by_idempotency_key(procs[p].txn.idempotency_key)
             /\ UNCHANGED <<users, transactions, payments, ichancy>>]_vars

\* C12: when the external credit call of a deposit on a linked account returns
\* a logical failure, the invocation ends with the transaction stored as
\* PARTIALLY_FAILED, its error detail the remote failure reason, the deposit
\* not credited to the account (no balance change made for it), and failure
\* returned to the caller.
C12_ExternalCreditFailure ==
    [][\A p \in Procs :
          (/\ procs[p].pc = "cd_partial_write"
           /\ Acts(p))
          => /\ transactions'[procs[p].tid].state = PARTIALLY_FAILED
             /\ transactions'[procs[p].tid].error_message = "Ichancy deposit failed"
             /\ audit'[procs[p].tid].balance_change = 0
             /\ users'[procs[p].user_id].local_balance = procs[p].user.local_balance
             /\ users'[procs[p].user_id].total_deposited = procs[p].user.total_deposited
             /\ procs'[p].result.value = "failure"]_vars

\* Payment rows linked to a transaction, before and after a step.
PaymentsOf(tid) == {q \in DOMAIN payments : payments[q].transaction_id = tid}
PaymentsAfter(tid) == {q \in DOMAIN payments' : payments'[q].transaction_id = tid}

\* C13: when the external debit of a withdrawal on a linked account fails (a
\* logical failure, or an exception once the retries are exhausted), the
\* invocation ends with the transaction stored as FAILED, no debit made for it
\* (local_balance and total_withdrawn untouched by it), no Payment row linked
\* to it, and failure returned.
C13_ExternalDebitFailure ==
    [][\A p \in Procs :
          (/\ procs[p].pc = "iw_failed_write"
           /\ Acts(p)
           /\ procs[p].err \in {"Ichancy withdrawal failed", "NetworkException"})
          => /\ transactions'[procs[p].tid].state = FAILED
             /\ transactions'[procs[p].tid].error_message = procs[p].err
             /\ transactions'[procs[p].tid].balance_after = <<>>
             /\ audit'[procs[p].tid].balance_change = 0
             /\ PaymentsAfter(procs[p].tid) = {}
             /\ procs'[p].result.value = "failure"]_vars

\* A withdrawal on a linked account has returned failure after its external
\* debit failed.
C13_DebitFailed ==
    \E p \in Procs :
        /\ Returned(p)
        /\ procs[p].op = "initiate_withdrawal"
        /\ procs[p].result.value = "failure"
        /\ procs[p].result.error \in {"Ichancy withdrawal failed", "NetworkException"}
        /\ transactions[procs[p].result.transaction_id].state = FAILED
        /\ ichancy[procs[p].result.transaction_id].withdrawal = 1

\* No other caller has started any operation: p's invocations ran alone.
Alone(p) == \A q \in Procs \ {p} : procs[q] = Idle

\* C14: complete_deposit run alone, with no storage failure, for a deposit of
\* amount a with a VERIFIED payment on an unlinked account of balance b,
\* returns success with the transaction COMPLETED, balance_after = b + a,
\* local_balance = b + a, total_deposited increased by exactly a, and no
\* external wallet call made.
C14_UnlinkedDepositCompletes ==
    [][\A p \in Procs :
          (/\ procs[p].op = "complete_deposit"
           /\ procs[p].pc \in {"cd_update_txn", "cd_failed_write", "cd_partial_write"}
           /\ Acts(p)
           /\ Alone(p)
           /\ faults' = 0
           /\ procs[p].user.ichancy_username = NULL)
          => LET t == procs[p].tid
                 b == procs[p].user.local_balance
                 a == procs[p].txn.amount
             IN /\ procs'[p].result.value = "success"
                /\ transactions'[t].state = COMPLETED
                /\ transactions'[t].balance_after = <<b + a>>
                /\ users'[procs[p].user_id].local_balance = b + a
                /\ users'[procs[p].user_id].total_deposited
                      = procs[p].user.total_deposited + a
                /\ users'[procs[p].user_id].total_withdrawn
                      = procs[p].user.total_withdrawn
                /\ ichancy'[t].deposit = 0]_vars

\* A deposit on an unlinked account that already held a balance has been
\* completed by a caller running alone.
C14_Completed ==
    \E p \in Procs :
        /\ Returned(p)
        /\ Alone(p)
        /\ faults = 0
        /\ procs[p].op = "complete_deposit"
        /\ procs[p].result.value = "success"
        /\ users[1].ichancy_username = NULL
        /\ transactions[procs[p].result.transaction_id].state = COMPLETED
        /\ transactions[procs[p].result.transaction_id].balance_before > 0

\* C15: a withdrawal of amount a run alone, with no storage failure, that
\* passes its preconditions and whose external debit succeeds (or that has no
\* linkage) returns success with local_balance decreased by exactly a,
\* total_withdrawn increased by exactly a, exactly one Payment row linked to
\* the transaction, PENDING and holding the payout target, and the transaction
\* COMPLETED with balance_after = balance_before - a.
C15_WithdrawalCompletes ==
    [][\A p \in Procs :
          (/\ procs[p].op = "initiate_withdrawal"
           /\ procs[p].pc \in {"iw_update_txn", "iw_failed_write"}
           /\ Acts(p)
           /\ Alone(p)
           /\ faults' = 0
           /\ procs[p].err = NULL)
          => LET t == procs[p].tid
                 u == procs[p].user_id
                 a == procs[p].amount
             IN /\ procs'[p].result.value = "success"
                /\ users'[u].local_balance = procs[p].user.local_balance - a
                /\ users'[u].total_withdrawn = procs[p].user.total_withdrawn + a
                /\ users'[u].total_deposited = procs[p].user.total_deposited
                /\ Cardinality(PaymentsAfter(t)) = 1
                /\ \A q \in PaymentsAfter(t) :
                      /\ payments'[q].state = "pending"
                      /\ payments'[q].phone_number = "phone"
                      /\ payments'[q].amount = a
                /\ transactions'[t].state = COMPLETED
                /\ transactions'[t].balance_after
                      = <<transactions'[t].balance_before - a>>
                /\ transactions'[t].balance_before = procs[p].user.local_balance]_vars

\* A withdrawal run alone has returned success while its payout record is
\* still PENDING.
C15_Withdrawn ==
    \E p \in Procs :
        /\ Returned(p)
        /\ Alone(p)
        /\ faults = 0
        /\ procs[p].op = "initiate_withdrawal"
        /\ procs[p].result.value = "success"
        /\ transactions[procs[p].result.transaction_id].state = COMPLETED
        /\ \E q \in PaymentsOf(procs[p].result.transaction_id) :
              payments[q].state = "pending"

\* C16: a deposit transaction never leaves PENDING while no linked Payment row
\* is VERIFIED, and complete_deposit finding no VERIFIED payment returns
\* failure without changing any transaction, any balance or the Ichancy
\* call log.
C16_NoCompletionWithoutVerifiedPayment ==
    [][/\ \A t \in DOMAIN transactions :
             (/\ transactions[t].type = "deposit"
              /\ transactions[t].state = PENDING
              /\ transactions'[t].state # PENDING)
             => \E q \in PaymentsOf(t) : payments[q].state = "verified"
       /\ \A p \in Procs :
             (/\ procs[p].pc = "cd_get_payment"
              /\ Acts(p)
              /\ \A q \in PaymentsOf(procs[p].tid) : payments[q].state # "verified")
             => /\ procs'[p].result.value = "failure"
                /\ UNCHANGED <<transactions, users, ichancy>>]_vars

\* C17: the deposit credit is one atomic step: in every reachable state the
\* account has been credited for a deposit exactly when that deposit's stored
\* transaction carries balance_after.
C17_CreditIsAtomic ==
    \A t \in DOMAIN transactions :
        transactions[t].type = "deposit"
        => (audit[t].balance_change > 0 <=> transactions[t].balance_after # <<>>)

\* C18: when a step of complete_deposit or initiate_withdrawal raises while
\* the stored transaction is PROCESSING (it has left PENDING and has reached
\* no terminal state), the workflow returns failure and leaves the transaction
\* stored as FAILED with the exception detail as its error_message.
C18_ExceptionMovesToFailed ==
    [][\A p \in Procs :
          (/\ procs[p].pc \in {"cd_failed_write", "iw_failed_write"}
           /\ Acts(p)
           /\ procs[p].raised_in = PROCESSING)
          => /\ procs'[p].result.value = "failure"
             /\ procs'[p].result.error = procs[p].err
             /\ transactions'[procs[p].tid].state = FAILED
             /\ transactions'[procs[p].tid].error_message = procs[p].err]_vars

\* C19: re-entry. update_state(PENDING) on a FAILED transaction is accepted
\* and puts that same row back to PENDING without creating a row;
\* complete_deposit returning success leaves the transaction id it was given
\* COMPLETED; and a re-entered transaction keeps its id and stays the only row
\* carrying its idempotency key. The execution FAILED -> PENDING -> ... ->
\* COMPLETED itself is the reachable state C19_ReenteredAndCompleted.
C19_ReentryKeepsOneRow ==
    [][/\ \A p \in Procs :
             (/\ procs[p].pc = "us_write"
              /\ Acts(p)
              /\ procs[p].seen = FAILED
              /\ procs[p].new_state = PENDING)
             => /\ procs'[p].result.value = "True"
                /\ DOMAIN transactions' = DOMAIN transactions
                /\ transactions'[procs[p].tid].state = PENDING
                /\ transactions'[procs[p].tid].id = procs[p].tid
                /\ transactions'[procs[p].tid].idempotency_key =
                      transactions[procs[p].tid].idempotency_key
       /\ \A p \in Procs :
             (/\ procs[p].pc = "cd_update_txn"
              /\ Acts(p)
              /\ procs'[p].result.value = "success")
             => /\ procs'[p].result.transaction_id = procs[p].tid
                /\ transactions'[procs[p].tid].state = COMPLETED
                /\ transactions'[procs[p].tid].id = procs[p].tid
       /\ \A t \in DOMAIN transactions' :
             <<FAILED, PENDING>> \in audit'[t].state_change
             => /\ transactions'[t].id = t
                /\ Cardinality({x \in DOMAIN transactions' :
                      transactions'[x].idempotency_key =
                         transactions'[t].idempotency_key}) = 1]_vars

C19_ReenteredAndCompleted ==
    \E t \in DOMAIN transactions, p \in Procs :
        /\ <<PROCESSING, FAILED>> \in audit[t].state_change
        /\ <<FAILED, PENDING>> \in audit[t].state_change
        /\ transactions[t].state = COMPLETED
        /\ transactions[t].id = t
        /\ Returned(p)
        /\ procs[p].op = "complete_deposit"
        /\ procs[p].result.value = "success"
        /\ procs[p].result.transaction_id = t
        /\ Cardinality({x \in DOMAIN transactions :
              transactions[x].idempotency_key = transactions[t].idempotency_key}) = 1

\* C20: once failure_threshold failures have been recorded in a row the
\* breaker is not CLOSED (the step that records the last of them on a CLOSED
\* breaker leaves it OPEN), and every attempt of retry_async made before
\* recovery_timeout has elapsed since the last recorded failure is rejected
\* with the circuit-breaker NetworkException without func being invoked.
C20_OpenBreakerRejects ==
    [][/\ (breaker._state = CLOSED /\ recorded' >= failure_threshold)
          => breaker'._state = OPEN
       /\ (recorded' >= failure_threshold) => breaker'._state # CLOSED
       /\ \A c \in Callers :
             (/\ calls[c].pc = "check"
              /\ calls'[c] # calls[c]
              /\ recorded >= failure_threshold
              /\ now - breaker._last_failure_time[1] < recovery_timeout)
             => /\ calls'[c].pc = "done"
                /\ calls'[c].result = "circuit breaker open"
                /\ \A d \in Callers : calls'[d].invoked = calls[d].invoked
                /\ breaker'._state = OPEN]_vars

C20_Rejected ==
    \E c \in Callers :
        /\ calls[c].pc = "done"
        /\ calls[c].result = "circuit breaker open"
        /\ calls[c].invoked = 0
        /\ recorded >= failure_threshold
        /\ breaker._state = OPEN
        /\ now - breaker._last_failure_time[1] < recovery_timeout
        /\ now > breaker._last_failure_time[1]

\* C21: while the breaker is HALF_OPEN, no more than half_open_max_calls
\* calls have been let through by can_execute since it became HALF_OPEN,
\* calls still in flight included.
C21_HalfOpenTrialsLimited ==
    breaker._state = HALF_OPEN => trials <= half_open_max_calls

\* A caller of retry_async queries the breaker's state in this step.
StateQuery(c) == calls[c].pc = "check" /\ calls'[c] # calls[c]

\* C22: a state query on an OPEN breaker made before recovery_timeout has
\* elapsed since the last recorded failure leaves it OPEN and the request is
\* refused; a query made at or after that point makes it HALF_OPEN with
\* _half_open_calls = 0; and an OPEN breaker changes state in no other step.
C22_OpenUntilRecoveryTimeout ==
    [][/\ \A c \in Callers :
             (StateQuery(c) /\ breaker._state = OPEN)
             => IF now - breaker._last_failure_time[1] < recovery_timeout
                THEN /\ breaker' = breaker
                     /\ calls'[c].result = "circuit breaker open"
                ELSE /\ breaker'._state = HALF_OPEN
                     /\ breaker'._half_open_calls = 0
                     /\ calls'[c].pc = "func"
       /\ (breaker._state = OPEN /\ breaker'._state # OPEN)
          => /\ \E c \in Callers : StateQuery(c)
             /\ breaker'._state = HALF_OPEN]_vars

C22_HalfOpened ==
    /\ breaker._state = HALF_OPEN
    /\ breaker._half_open_calls = 0
    /\ trials = 1
    /\ now - breaker._last_failure_time[1] >= recovery_timeout
    /\ breaker._failure_count > failure_threshold

\* C23: a failure recorded while the breaker is HALF_OPEN moves it to OPEN
\* and sets _last_failure_time to the time of that failure; and the breaker
\* becomes HALF_OPEN only when recovery_timeout has elapsed since the last
\* recorded failure.
C23_HalfOpenFailureReopens ==
    [][/\ (breaker._state = HALF_OPEN /\ recorded' = recorded + 1)
          => /\ breaker'._state = OPEN
             /\ breaker'._last_failure_time = <<now>>
       /\ (breaker._state # HALF_OPEN /\ breaker'._state = HALF_OPEN)
          => now - breaker._last_failure_time[1] >= recovery_timeout]_vars

C23_Reopened ==
    /\ breaker._state = OPEN
    /\ trials >= 1
    /\ recorded >= 1
    /\ breaker._failure_count = failure_threshold + 1
    /\ breaker._last_failure_time[1] >= recovery_timeout

\* retry_async records a success on the breaker in this step.
SuccessRecorded ==
    \E c \in Callers : calls[c].pc = "func" /\ calls'[c].result = "result"

\* C24: a HALF_OPEN breaker becomes CLOSED exactly in the step that records
\* the half_open_max_calls-th success since it became HALF_OPEN (a failure in
\* between would have made it OPEN); on closing _failure_count is zero; a
\* success that leaves the count below half_open_max_calls leaves it
\* HALF_OPEN; and the breaker becomes CLOSED in no other way.
C24_HalfOpenClosesAfterSuccesses ==
    [][/\ (breaker._state = HALF_OPEN /\ SuccessRecorded)
          => IF successes' = half_open_max_calls
             THEN breaker'._state = CLOSED /\ breaker'._failure_count = 0
             ELSE breaker'._state = HALF_OPEN /\ successes' < half_open_max_calls
       /\ (breaker._state # CLOSED /\ breaker'._state = CLOSED)
          => /\ breaker._state = HALF_OPEN
             /\ SuccessRecorded
             /\ successes' = half_open_max_calls
             /\ breaker'._failure_count = 0]_vars

C24_ClosedAgain ==
    /\ breaker._state = CLOSED
    /\ successes = half_open_max_calls
    /\ breaker._failure_count = 0
    /\ breaker._last_failure_time # <<>>

\* C25: when the breaker answers that it cannot execute at the start of an
\* attempt, retry_async ends at once with the circuit-breaker
\* NetworkException: func is not invoked, the call does not sleep, nothing is
\* recorded on the breaker, and a finished call makes no further attempt.
C25_RejectedAttemptFailsAtOnce ==
    [][/\ \A c \in Callers :
             (StateQuery(c) /\ breaker'._state = OPEN)
             => /\ calls'[c].pc = "done"
                /\ calls'[c].result = "circuit breaker open"
                /\ calls'[c].invoked = calls[c].invoked
                /\ calls'[c].attempt = calls[c].attempt
                /\ breaker' = breaker
                /\ recorded' = recorded
                /\ successes' = successes
       /\ \A c \in Callers :
             (calls[c].pc = "done" /\ calls'[c] # calls[c])
             => calls'[c] = [NoCall EXCEPT !.pc = "check"]]_vars

C25_RejectedWithRetriesLeft ==
    \E c \in Callers :
        /\ calls[c].pc = "done"
        /\ calls[c].result = "circuit breaker open"
        /\ calls[c].invoked >= 1
        /\ calls[c].attempt = calls[c].invoked
        /\ calls[c].attempt < max_retries

\* C26: retry_async always terminates; func is invoked at most
\* max_retries + 1 times in one call; and a call every attempt of which
\* failed with a retried exception raises the exception of its last attempt.
C26_RetryTerminates ==
    /\ [](\A c \in Callers :
            /\ calls[c].invoked <= max_retries + 1
            /\ (calls[c].pc = "done" /\ calls[c].result = "last_exception")
               => /\ calls[c].invoked = max_retries + 1
                  /\ calls[c].last_exception = <<max_retries>>)
    /\ \A c \in Callers :
          (calls[c].pc \in {"check", "func", "sleep"}) ~> (calls[c].pc = "done")

C26_RetriesExhausted ==
    \E c \in Callers :
        /\ calls[c].pc = "done"
        /\ calls[c].result = "last_exception"
        /\ calls[c].invoked = max_retries + 1

\* C27: initiate_deposit and initiate_withdrawal called for an account that
\* does not exist or is blocked raise UserNotFoundException, respectively
\* UserBlockedException, in their first step: no Transaction or Payment row
\* is created, no Ichancy call is made, no balance changes, and the call has
\* ended.
C27_InvalidAccountRejected ==
    [][\A p \in Procs :
          (/\ procs[p].pc = "idle"
           /\ Acts(p)
           /\ procs'[p].op \in {"initiate_deposit", "initiate_withdrawal"})
          => LET u == procs'[p].user_id
             IN /\ u \notin DOMAIN users
                   => /\ procs'[p].result.kind = "raise"
                      /\ procs'[p].result.value = "UserNotFoundException"
                /\ (u \in DOMAIN users /\ users[u].state = "blocked")
                   => /\ procs'[p].result.kind = "raise"
                      /\ procs'[p].result.value = "UserBlockedException"
                /\ (u \notin DOMAIN users \/ users[u].state = "blocked")
                   => /\ procs'[p].pc = "idle"
                      /\ UNCHANGED <<users, transactions, payments, ichancy, audit,
                                     nextTxn, nextPay>>]_vars

C27_BlockedRefused ==
    \E p, q \in Procs :
        /\ Returned(p)
        /\ procs[p].op = "initiate_withdrawal"
        /\ procs[p].result.value = "UserBlockedException"
        /\ users[procs[p].user_id].local_balance >= 1
        /\ Returned(q)
        /\ procs[q].op = "initiate_deposit"
        /\ procs[q].result.value = "UserNotFoundException"
        /\ procs[q].user_id \notin DOMAIN users

\* Terminal states of the transaction state machine.
TerminalStates == {COMPLETED, CANCELLED, REVERSED, PARTIALLY_FAILED}

\* C28: the recovery listing returns every stored transaction whose state is
\* not terminal and no transaction whose state is terminal, in ascending
\* order of creation time.
C28_RecoveryListing ==
    [][\A p \in Procs :
          (/\ procs[p].pc = "idle"
           /\ Acts(p)
           /\ procs'[p].op = "get_pending_transactions")
          => LET rows == procs'[p].rows
             IN /\ {rows[i] : i \in DOMAIN rows} =
                      {t \in DOMAIN transactions :
                          transactions[t].state \notin TerminalStates}
                /\ \A i, j \in DOMAIN rows :
                      i < j => created_at(rows[i]) <= created_at(rows[j])]_vars

\* C29: a response with an HTTP status below 400 whose body carries an
\* application-level error flag is reported as a failure (success = false)
\* with the error text of the body, never as a success; and a response with
\* a status below 400 is reported as success only when it carries no flag.
C29_EmbeddedErrorIsFailure ==
    (http.pc = "returned" /\ http.response.status_code < 400)
    => LET body == http.response.body
           flag == /\ body.kind = "dict"
                   /\ \/ body.hasError = "yes"
                      \/ body.error \notin {NULL, ""}
                      \/ body.status = "error"
           texts == {body.msg, body.error, body.message} \ {NULL, ""}
       IN /\ flag => /\ http.result.success = FALSE
                     /\ IF texts = {} THEN http.result.error = "Unknown error"
                        ELSE http.result.error \in texts
          /\ http.result.success = TRUE => ~flag

C29_FlaggedAndRefused ==
    /\ http.pc = "returned"
    /\ http.response.status_code < 400
    /\ http.response.body.kind = "dict"
    /\ http.response.body.hasError # "yes"
    /\ http.response.body.status = "error"
    /\ http.result.success = FALSE
    /\ http.result.error = "remote message"

\* C30: a step that writes a transaction row leaves processing_started_at
\* set if the row is PROCESSING or had it set before, leaves completed_at
\* set if the row is COMPLETED or FAILED, and leaves both set if the row is
\* COMPLETED.
C30_TimestampsPersist ==
    [][\A t \in DOMAIN transactions' :
          LET row == transactions'[t]
              written == t \notin DOMAIN transactions \/ transactions[t] # row
          IN written =>
                /\ row.state = PROCESSING => row.processing_started_at # NULL
                /\ (/\ t \in DOMAIN transactions
                    /\ transactions[t].processing_started_at # NULL)
                   => row.processing_started_at # NULL
                /\ row.state \in {COMPLETED, FAILED} => row.completed_at # NULL
                /\ row.state = COMPLETED => row.processing_started_at # NULL]_vars

RECURSIVE pow(_, _)
pow(b, e) == IF e = 0 THEN 1 ELSE b * pow(b, e - 1)

\* Attempts of the call that have failed with a retryable exception.
failed_attempts(c) ==
    IF calls[c].last_exception = <<>> THEN 0 ELSE calls[c].last_exception[1] + 1

\* C31: the i-th sleep of a retry_async call lasts delay * backoff^(i-1); a
\* call has slept once per failed attempt, except that the failed attempt
\* which ends the call (the one after max_retries retries) is followed by no
\* sleep; a call that returns a result has slept once per failed attempt.
C31_BackoffSleeps ==
    \A c \in Callers :
       LET s == calls[c].sleeps
       IN /\ \A i \in DOMAIN s : s[i] = delay * pow(backoff, i - 1)
          /\ Len(s) = IF calls[c].result = "last_exception"
                      THEN failed_attempts(c) - 1
                      ELSE failed_attempts(c)
          /\ calls[c].result = "last_exception" => Len(s) = max_retries
          /\ Len(s) <= max_retries

C31_SleptThenSucceeded ==
    \E c \in Callers :
       /\ calls[c].pc = "done"
       /\ calls[c].result = "result"
       /\ calls[c].sleeps = <<1, 2, 4>>

\* C32: when the wrapped operation raises an exception outside the
\* retryable set, the call ends at once with that exception, with no further
\* invocation and no sleep, and the breaker's failure count has gone up by
\* exactly one for that occurrence.
C32_NonRetryablePropagates ==
    [][\A c \in Callers :
          (/\ calls[c].pc = "func"
           /\ calls'[c].result = "other exception")
          => /\ calls'[c].pc = "done"
             /\ calls'[c].invoked = calls[c].invoked
             /\ calls'[c].sleeps = calls[c].sleeps
             /\ breaker'._failure_count = breaker._failure_count + 1]_vars

C34_FailedAppliedNothing ==
    \A t \in DOMAIN transactions :
        transactions[t].state = FAILED
        => /\ audit[t].balance_change = 0
           /\ transactions[t].type = "withdrawal" => PaymentsOf(t) = {}

\* The breaker's state changes as the specification lists them.
BreakerEdges ==
    {<<CLOSED, OPEN>>, <<OPEN, HALF_OPEN>>, <<HALF_OPEN, OPEN>>, <<HALF_OPEN, CLOSED>>}

\* C36: the breaker starts CLOSED with a failure count of zero; its state
\* changes only from CLOSED to OPEN, OPEN to HALF_OPEN, HALF_OPEN to OPEN and
\* HALF_OPEN to CLOSED; and a step that records the outcome of a call while
\* the breaker is OPEN leaves it OPEN.
C36_BreakerTransitions ==
    /\ breaker._state = CLOSED
    /\ breaker._failure_count = 0
    /\ [][/\ breaker'._state # breaker._state
             => <<breaker._state, breaker'._state>> \in BreakerEdges
          /\ (/\ breaker._state = OPEN
              /\ \E c \in Callers : calls[c].pc = "func" /\ calls'[c].pc # "func")
             => breaker'._state = OPEN]_vars

\* A failure was recorded while the breaker was OPEN: the fifth failure
\* opened it and a call already in flight failed after that, before any time
\* had passed.
C36_RecordedWhileOpen ==
    /\ breaker._state = OPEN
    /\ breaker._failure_count = failure_threshold + 1
    /\ now = 0

\* C37: when the wrapped wallet operation returns a response that reports a
\* logical failure (success = False, an HTTP status of 400 or above included),
\* the breaker's failure count does not go up, a CLOSED breaker's count is
\* reset to zero and stays CLOSED, and a HALF_OPEN breaker counts the call as
\* a successful trial; and the failure count goes up only in a step in which
\* the operation raised a retryable exception.
C37_LogicalFailureCountsAsSuccess ==
    [][/\ \A c \in Callers :
             (/\ calls[c].pc = "func"
              /\ calls'[c].response # <<>>
              /\ ~calls'[c].response[1].success)
             => /\ breaker'._failure_count <= breaker._failure_count
                /\ breaker._state = CLOSED
                   => breaker'._failure_count = 0 /\ breaker'._state = CLOSED
                /\ breaker._state = HALF_OPEN
                   => breaker'._half_open_calls = breaker._half_open_calls + 1
                /\ breaker'._last_failure_time = breaker._last_failure_time
       /\ breaker'._failure_count > breaker._failure_count
          => \E c \in Callers :
                /\ calls[c].pc = "func"
                /\ calls'[c].last_exception = <<calls[c].attempt>>
                /\ calls'[c].response = <<>>]_vars

\* A call whose first three attempts raised returned an HTTP 500 response
\* from its fourth, and the CLOSED breaker's count is back at zero.
C37_LogicalFailureReset ==
    \E c \in Callers :
        /\ calls[c].pc = "done"
        /\ calls[c].response = <<IchancyResponse(FALSE, "HTTP error")>>
        /\ calls[c].invoked = max_retries + 1
        /\ breaker._state = CLOSED
        /\ breaker._failure_count = 0

\* C39: a Payment that is VERIFIED stays VERIFIED: no step, in particular no
\* later verify_payment call after its expiry time or beyond the fifth
\* verification attempt, changes its state.
C39_VerifiedStaysVerified ==
    [][\A q \in DOMAIN payments :
          payments[q].state = "verified" => payments'[q].state = "verified"]_vars

\* The states in which a workflow leaves the transaction it processed.
WorkflowEndStates == {COMPLETED, FAILED, PARTIALLY_FAILED}

\* C38: under fairness, a workflow call that has moved its transaction to
\* PROCESSING returns; in the step in which it returns the
\* stored state of that transaction is COMPLETED, FAILED or PARTIALLY_FAILED;
\* and a transaction is PROCESSING only while a call on it is in progress.
C38_ProcessingEnds ==
    /\ \A p \in ThreeProcs :
          procs[p].moved_to_processing ~> procs[p].pc = "idle"
    /\ [][\A p \in ThreeProcs :
             (procs[p].moved_to_processing /\ procs'[p].pc = "idle")
             => transactions'[procs[p].tid].state \in WorkflowEndStates]_vars
    /\ [](\A t \in DOMAIN transactions :
             transactions[t].state = PROCESSING
             => \E p \in ThreeProcs : procs[p].pc # "idle" /\ procs[p].tid = t)

\* The bonus Transactions stored for a (bonus, user) pair.  A transactions row
\* carries no bonus id; every bonus Transaction of a user belongs to one of the
\* stored bonuses, and the store holds one.
bonus_transactions(bonus_id, user_id) ==
    {t \in DOMAIN transactions :
        /\ transactions[t].type = "bonus"
        /\ transactions[t].user_id = user_id
        /\ bonus_id \in BonusIds}

\* C40: under any interleaving of apply_bonus calls for the same (bonus, user)
\* pair, at most one bonus Transaction exists for the pair and apply_bonus
\* has raised the user's balance by the bonus amount at most once.
C40_BonusCreditedOnce ==
    \A b \in BonusIds, u \in UserIds :
        /\ Cardinality(bonus_transactions(b, u)) <= 1
        /\ bonus_credits[b, u] <= 1

\* Witness for C40: two apply_bonus calls for the same pair both passed the
\* usage check; one was credited and recorded, the other was turned away by
\* the storage layer.
C40_SecondCallRejected ==
    \E b \in BonusIds, u \in UserIds :
        /\ bonus_credits[b, u] = 1
        /\ Cardinality(bonus_transactions(b, u)) = 1
        /\ procs["p1"].pc = "idle" /\ procs["p1"].op = "apply_bonus"
        /\ procs["p1"].result.value = "success"
        /\ procs["p2"].pc = "idle" /\ procs["p2"].op = "apply_bonus"
        /\ procs["p2"].result.error = "IntegrityError"

\* C35: for the account created with zero balances, whenever no workflow is
\* in progress, local_balance equals total_deposited minus total_withdrawn,
\* after any interleaving of deposit completions, withdrawals and bonus
\* applications.
C35_BalanceEquation ==
    (\A p \in Procs : procs[p].pc = "idle")
    => \A u \in DOMAIN users :
          users[u].local_balance = users[u].total_deposited - users[u].total_withdrawn

====
